---------------------------- MODULE Spec2Model ----------------------------
(***************************************************************************)
(* A model of the telegram-video-sorter ingestion pipeline: the Store      *)
(* (services/storage.ts), the rate-limit driver (utils/helpers.ts), the    *)
(* forwarder (services/message-forwarder.ts), the source scanner           *)
(* (services/video-processor.ts) and the runner (telegram-sorter.ts).      *)
(*                                                                         *)
(* Text is modelled as a sequence of one-character strings, so that the    *)
(* normalizer, the predicate and the name similarity are computed the way  *)
(* the code computes them.  Absent numbers (null / undefined) are 0: the   *)
(* code tests them by truthiness, which treats 0 and absent alike.         *)
(***************************************************************************)
EXTENDS Integers, Sequences, FiniteSets, TLC

(***************************************************************************)
(* Text helpers.                                                           *)
(***************************************************************************)
Digits == {"0", "1", "2", "3", "4", "5", "6", "7", "8", "9"}

LowerLetters ==
    {"a", "b", "c", "d", "e", "f", "g", "h", "i", "j", "k", "l", "m",
     "n", "o", "p", "q", "r", "s", "t", "u", "v", "w", "x", "y", "z"}

UpperOf ==
    [c \in LowerLetters |->
        CASE c = "a" -> "A" [] c = "b" -> "B" [] c = "c" -> "C" [] c = "d" -> "D"
          [] c = "e" -> "E" [] c = "f" -> "F" [] c = "g" -> "G" [] c = "h" -> "H"
          [] c = "i" -> "I" [] c = "j" -> "J" [] c = "k" -> "K" [] c = "l" -> "L"
          [] c = "m" -> "M" [] c = "n" -> "N" [] c = "o" -> "O" [] c = "p" -> "P"
          [] c = "q" -> "Q" [] c = "r" -> "R" [] c = "s" -> "S" [] c = "t" -> "T"
          [] c = "u" -> "U" [] c = "v" -> "V" [] c = "w" -> "W" [] c = "x" -> "X"
          [] c = "y" -> "Y" [] c = "z" -> "Z"]

\* String.prototype.toLowerCase on one character.
LowerChar(c) ==
    IF \E l \in LowerLetters : UpperOf[l] = c
    THEN CHOOSE l \in LowerLetters : UpperOf[l] = c
    ELSE c

\* String.prototype.toLowerCase.
ToLower(s) == [i \in 1..Len(s) |-> LowerChar(s[i])]

\* The characters the regular expressions' \s class meets in the model.
IsSpace(c) == c = " "

\* The class [\s_\-\.] of the normalizer.
IsSeparator(c) == IsSpace(c) \/ c \in {"_", "-", "."}

\* tok occurs in s at position i.
HasAt(s, i, tok) ==
    /\ i >= 1
    /\ i + Len(tok) - 1 <= Len(s)
    /\ \A k \in 1..Len(tok) : s[i + k - 1] = tok[k]

\* String.prototype.includes.
Includes(s, tok) == \E i \in 1..(Len(s) + 1) : HasAt(s, i, tok)

\* String.prototype.trim.
RECURSIVE TrimLeft(_)
TrimLeft(s) == IF s # <<>> /\ IsSpace(Head(s)) THEN TrimLeft(Tail(s)) ELSE s

RECURSIVE TrimRight(_)
TrimRight(s) ==
    IF s # <<>> /\ IsSpace(s[Len(s)]) THEN TrimRight(SubSeq(s, 1, Len(s) - 1)) ELSE s

Trim(s) == TrimRight(TrimLeft(s))

\* s.replace(/re/g, rep) for a regular expression whose match at position i
\* has length len[i] (0: no match there): leftmost matches, left to right.
RECURSIVE ReplaceFrom(_, _, _, _)
ReplaceFrom(s, i, len, rep) ==
    IF i > Len(s) THEN <<>>
    ELSE IF len[i] > 0
         THEN rep \o ReplaceFrom(s, i + len[i], len, rep)
         ELSE <<s[i]>> \o ReplaceFrom(s, i + 1, len, rep)

ReplaceAll(s, len, rep) == ReplaceFrom(s, 1, len, rep)

\* Length of the first alternative of toks (in order) that occurs at i; 0 if none.
RECURSIVE AltLen(_, _, _)
AltLen(s, i, toks) ==
    IF toks = <<>> THEN 0
    ELSE IF HasAt(s, i, Head(toks)) THEN Len(Head(toks))
    ELSE AltLen(s, i, Tail(toks))

IsOpen(s, i) == i <= Len(s) /\ s[i] \in {"[", "("}
IsClose(s, i) == i <= Len(s) /\ s[i] \in {"]", ")"}
IsDigitAt(s, i) == i <= Len(s) /\ s[i] \in Digits

\* A match of [\[\(]? core [\]\)]? at i, core[j] being the length of the core's
\* match at j.  The optional opening bracket is taken when present: without it
\* the core would have to start on the bracket, which no core here does.
Bracketed(s, i, core) ==
    LET j == IF IsOpen(s, i) THEN i + 1 ELSE i
        n == core[j]
    IN  IF n = 0 THEN 0
        ELSE (j - i) + n + (IF IsClose(s, j + n) THEN 1 ELSE 0)

\* The match lengths of [\[\(]? (tok1|tok2|...) [\]\)]? at every position of s.
BracketedAlt(s, toks) ==
    LET core == [j \in 1..(Len(s) + 1) |-> AltLen(s, j, toks)]
    IN  [i \in 1..Len(s) |-> Bracketed(s, i, core)]

(***************************************************************************)
(* utils/helpers.ts: normalizeFileName.                                    *)
(***************************************************************************)
VideoExtensions ==
    << <<"m","p","4">>, <<"m","k","v">>, <<"a","v","i">>, <<"m","o","v">>,
       <<"w","m","v">>, <<"f","l","v">>, <<"w","e","b","m">> >>

\* /\.(mp4|mkv|avi|mov|wmv|flv|webm)$/ : the extension, at the end only.
StripExtension(s) ==
    LET hit == {k \in 1..Len(VideoExtensions) :
                   LET e == <<".">> \o VideoExtensions[k]
                   IN  Len(s) >= Len(e) /\ HasAt(s, Len(s) - Len(e) + 1, e)}
    IN  IF hit = {} THEN s
        ELSE LET k == CHOOSE k \in hit : TRUE
             IN  SubSeq(s, 1, Len(s) - Len(VideoExtensions[k]) - 1)

\* \d{3,4}p at j: four digits and p, else three digits and p.
ResolutionCore(s, j) ==
    IF /\ \A k \in 0..3 : IsDigitAt(s, j + k)
       /\ HasAt(s, j + 4, <<"p">>)
    THEN 5
    ELSE IF /\ \A k \in 0..2 : IsDigitAt(s, j + k)
            /\ HasAt(s, j + 3, <<"p">>)
         THEN 4
         ELSE 0

\* /[\[\(]?\d{3,4}p[\]\)]?/
ResolutionLens(s) ==
    LET core == [j \in 1..(Len(s) + 1) |-> ResolutionCore(s, j)]
    IN  [i \in 1..Len(s) |-> Bracketed(s, i, core)]

\* /[\[\(]?\d{1}k[\]\)]?/
KLens(s) ==
    LET core == [j \in 1..(Len(s) + 1) |->
                    IF IsDigitAt(s, j) /\ HasAt(s, j + 1, <<"k">>) THEN 2 ELSE 0]
    IN  [i \in 1..Len(s) |-> Bracketed(s, i, core)]

QualityTokens == << <<"u","h","d">>, <<"f","h","d">>, <<"h","d">>, <<"s","d">> >>

CodecTokens ==
    << <<"x","2","6","4">>, <<"x","2","6","5">>, <<"h","e","v","c">>,
       <<"h","2","6","4">>, <<"h","2","6","5">>, <<"a","v","c">>, <<"a","v","1">> >>

AudioTokens ==
    << <<"a","a","c">>, <<"a","c","3">>, <<"d","t","s">>, <<"m","p","3">>,
       <<"f","l","a","c">> >>

DomainTokens ==
    << <<"x","x","x">>, <<"c","o","m">>, <<"n","e","t">>, <<"o","r","g">> >>

\* /\.(xxx|com|net|org)($|[\s\-_\.])/ : the separator after it is consumed.
DomainLens(s) ==
    [i \in 1..Len(s) |->
        IF s[i] # "." THEN 0
        ELSE LET n == AltLen(s, i + 1, DomainTokens)
             IN  IF n = 0 THEN 0
                 ELSE IF i + n = Len(s) THEN 1 + n
                 ELSE IF IsSeparator(s[i + n + 1]) THEN 2 + n
                 ELSE 0]

\* web-?dl tries the hyphenated spelling first; both are listed.
ReleaseTokens ==
    << <<"r","s","s">>, <<"w","e","b","-","d","l">>, <<"w","e","b","d","l">>,
       <<"h","d","t","v">>, <<"b","l","u","r","a","y">>, <<"b","r","r","i","p">>,
       <<"w","e","b","r","i","p">> >>

\* /\[(rss|web-?dl|hdtv|bluray|brrip|webrip)\]/
ReleaseLens(s) ==
    [i \in 1..Len(s) |->
        IF s[i] # "[" THEN 0
        ELSE LET hit == {k \in 1..Len(ReleaseTokens) :
                            HasAt(s, i + 1, ReleaseTokens[k] \o <<"]">>)}
             IN  IF hit = {} THEN 0
                 ELSE Len(ReleaseTokens[CHOOSE k \in hit : TRUE]) + 2]

\* The length of the run of characters of class sep (a set) that starts at i.
RECURSIVE RunLen(_, _, _)
RunLen(s, i, sep) ==
    IF i <= Len(s) /\ s[i] \in sep THEN 1 + RunLen(s, i + 1, sep) ELSE 0

SeparatorChars == {" ", "_", "-", "."}

\* /[\s_\-\.]+/ and /\s+/
RunLens(s, sep) == [i \in 1..Len(s) |-> RunLen(s, i, sep)]

\* /[^a-z0-9\s]/
OtherLens(s) ==
    [i \in 1..Len(s) |->
        IF s[i] \in LowerLetters \/ s[i] \in Digits \/ IsSpace(s[i]) THEN 0 ELSE 1]

\* Line 35: 1080p, 720p, [1080p].
RemoveResolution(s) == ReplaceAll(s, ResolutionLens(s), <<>>)

\* Line 36: 4k, 8k.
RemoveK(s) == ReplaceAll(s, KLens(s), <<>>)

\* s.replace(/[\[\(]?(tok1|...)[\]\)]?/g, '')
RemoveTokens(s, toks) == ReplaceAll(s, BracketedAlt(s, toks), <<>>)

\* Line 44: domain suffixes.
RemoveDomains(s) == ReplaceAll(s, DomainLens(s), <<>>)

\* Line 48: release tags in square brackets.
RemoveReleaseTags(s) == ReplaceAll(s, ReleaseLens(s), <<>>)

\* s.replace(/[sep]+/g, rep)
ReplaceRuns(s, sep, rep) == ReplaceAll(s, RunLens(s, sep), rep)

\* Line 57: everything but letters, digits and whitespace.
RemoveOther(s) == ReplaceAll(s, OtherLens(s), <<>>)

normalizeFileName(fileName) ==
    Trim(ReplaceRuns(
        RemoveOther(
            Trim(ReplaceRuns(
                ReplaceRuns(
                    RemoveReleaseTags(
                        RemoveDomains(
                            RemoveTokens(
                                RemoveTokens(
                                    RemoveTokens(
                                        RemoveK(RemoveResolution(StripExtension(ToLower(fileName)))),
                                        QualityTokens),
                                    CodecTokens),
                                AudioTokens))),
                    SeparatorChars, <<" ">>),
                {" "}, <<" ">>))),
        {" "}, <<>>))

(***************************************************************************)
(* utils/helpers.ts and utils/video-matching.ts: reading a message.  A     *)
(* message is a record                                                     *)
(*   [id, media, document, video, videoAttr, duration, fileName, message,  *)
(*    sizeMB, width, height, mimeType]                                     *)
(* media / document: the message carries them; video: the protocol's video *)
(* flag; videoAttr: the document has a DocumentAttributeVideo (duration,   *)
(* width and height are its fields); fileName: the DocumentAttributeFile-  *)
(* name's value, <<>> when there is none; message: the caption.            *)
(***************************************************************************)
getVideoDuration(m) == IF m.document /\ m.videoAttr THEN m.duration ELSE 0

getFileName(m) == IF m.document THEN m.fileName ELSE <<>>

getFileSizeMB(m) == IF m.document THEN m.sizeMB ELSE 0

\* The subsequence of s at the positions whose keep[i] holds.
RECURSIVE Filter(_, _)
Filter(s, keep) ==
    IF s = <<>> THEN <<>>
    ELSE (IF Head(keep) THEN <<Head(s)>> ELSE <<>>) \o Filter(Tail(s), Tail(keep))

\* A Predicate that returns the keywords as it compared them: lowered and trimmed.
matchesVideoLowered(message, matches, exclusions, minDuration) ==
    LET text == ToLower(message.message) \o <<" ">> \o ToLower(message.fileName)
        found == {k \in 1..Len(matches) :
                     /\ Trim(ToLower(matches[k])) # <<>>
                     /\ Includes(text, Trim(ToLower(matches[k])))}
    IN  IF \/ ~(message.media /\ message.document)
           \/ ~(message.video \/ message.videoAttr)
           \/ ~message.videoAttr
           \/ message.duration = 0 \/ message.duration < minDuration
           \/ \E k \in 1..Len(exclusions) :
                  /\ Trim(ToLower(exclusions[k])) # <<>>
                  /\ Includes(text, Trim(ToLower(exclusions[k])))
        THEN <<>>
        ELSE Filter([k \in 1..Len(matches) |-> Trim(ToLower(matches[k]))],
                    [k \in 1..Len(matches) |-> k \in found])

matchesVideo(message, matches, exclusions, minDuration) ==
    IF ~(message.media /\ message.document) THEN <<>>
    ELSE IF ~(message.video \/ message.videoAttr) THEN <<>>
    ELSE LET messageText == ToLower(message.message)
             fileName == ToLower(getFileName(message))
             duration == getVideoDuration(message)
             combinedText == messageText \o <<" ">> \o fileName
         IN  IF duration = 0 \/ duration < minDuration THEN <<>>
             ELSE IF \E k \in 1..Len(exclusions) :
                        LET exclusionLower == Trim(ToLower(exclusions[k]))
                        IN  exclusionLower # <<>> /\ Includes(combinedText, exclusionLower)
                  THEN <<>>
             ELSE Filter(matches,
                         [k \in 1..Len(matches) |->
                             LET matchLower == Trim(ToLower(matches[k]))
                             IN  matchLower # <<>> /\ Includes(combinedText, matchLower)])

(***************************************************************************)
(* services/storage.ts: the Store.  processed_messages is a set of keys    *)
(* <<sourceId, messageId>> (the code's `${sourceId}_${message.id}`);       *)
(* processed_videos is the sequence of its rows in insertion order.        *)
(***************************************************************************)
\* A Store that drops the message row.
saveProcessedMessageDropped(msgs, messageId) == msgs

saveProcessedMessage(msgs, messageId) == msgs \cup {messageId}

\* A Store that never finds a message row.
hasProcessedMessageNever(msgs, messageId) == FALSE

hasProcessedMessage(msgs, messageId) == messageId \in msgs

\* INSERT OR IGNORE under UNIQUE (normalized_name, topic_name).
\* A plain INSERT into a table without the UNIQUE constraint.
InsertAlways(videos, row) == Append(videos, row)

\* INSERT OR REPLACE: the new row takes the place of the row with its key.
InsertOrReplace(videos, row) ==
    Append(Filter(videos,
                  [k \in 1..Len(videos) |->
                      ~(/\ videos[k].normalizedName = row.normalizedName
                        /\ videos[k].topicName = row.topicName)]),
           row)

InsertOrIgnore(videos, row) ==
    IF \E k \in 1..Len(videos) :
          /\ videos[k].normalizedName = row.normalizedName
          /\ videos[k].topicName = row.topicName
    THEN videos
    ELSE Append(videos, row)

saveProcessedVideoName(videos, fileName, topicName, duration, sizeMB, normalizedName, width, height, mimeType) ==
    LET normalized == IF normalizedName # <<>> THEN normalizedName ELSE ToLower(fileName)
    IN  InsertOrIgnore(videos,
            [fileName |-> fileName, normalizedName |-> normalized,
             topicName |-> topicName, duration |-> duration, sizeMB |-> sizeMB,
             width |-> width, height |-> height, mimeType |-> mimeType])

\* The legacy wildcard topic.
Wildcard == <<"*">>

\* The topic filter left out of the queries: every row is in every topic.
InAnyTopic(row, topicName) == TRUE

InTopic(row, topicName) == row.topicName = topicName \/ row.topicName = Wildcard

\* A DELETE without the topic filter.
deleteVideosEverywhere(videos, normalizedNames, topicName) ==
    Filter(videos, [k \in 1..Len(videos) |-> videos[k].normalizedName \notin normalizedNames])

\* result.changes of the DELETE: what deleteVideosFromTopic returns.
deletedChanges(videos, normalizedNames, topicName) ==
    IF normalizedNames = {} THEN 0
    ELSE Cardinality({k \in 1..Len(videos) :
                         /\ videos[k].normalizedName \in normalizedNames
                         /\ (videos[k].topicName = topicName \/ videos[k].topicName = Wildcard)})

deleteVideosFromTopic(videos, normalizedNames, topicName) ==
    IF normalizedNames = {} THEN videos
    ELSE Filter(videos,
                [k \in 1..Len(videos) |->
                    ~(videos[k].normalizedName \in normalizedNames
                      /\ InTopic(videos[k], topicName))])

(***************************************************************************)
(* services/storage.ts: the duplicate Oracle.  options is a record         *)
(*   [checkDuration, durationToleranceSeconds, checkFileSize,              *)
(*    fileSizeTolerancePercent, checkResolution,                           *)
(*    resolutionTolerancePercent, checkMimeType]                           *)
(* An absent text (mimeType) is <<>>.  Sizes are whole megabytes.          *)
(***************************************************************************)
Abs(x) == IF x < 0 THEN -x ELSE x
Max(a, b) == IF a >= b THEN a ELSE b
Min(a, b) == IF a <= b THEN a ELSE b

\* x || d on a number.
OrDefault(x, d) == IF x # 0 THEN x ELSE d

\* The number of leading positions at which str1 and str2 agree.
RECURSIVE CommonPrefix(_, _)
CommonPrefix(str1, str2) ==
    IF str1 # <<>> /\ str2 # <<>> /\ Head(str1) = Head(str2)
    THEN 1 + CommonPrefix(Tail(str1), Tail(str2))
    ELSE 0

CharSet(str) == {str[i] : i \in 1..Len(str)}

\* calculateSimilarity as the exact fraction <<numerator, denominator>>.
calculateSimilarity(str1, str2) ==
    IF str1 = str2 THEN <<1, 1>>
    ELSE LET longer == IF Len(str1) > Len(str2) THEN str1 ELSE str2
             shorter == IF Len(str1) > Len(str2) THEN str2 ELSE str1
         IN  IF 10 * Len(shorter) < 7 * Len(longer) THEN <<0, 1>>
             ELSE IF Includes(longer, shorter) THEN <<Len(shorter), Len(longer)>>
             ELSE LET prefixMatchingChars == CommonPrefix(str1, str2)
                      maxLen == Max(Len(str1), Len(str2))
                      inter == Cardinality(CharSet(str1) \cap CharSet(str2))
                      union == Cardinality(CharSet(str1) \cup CharSet(str2))
                  IN  <<7 * prefixMatchingChars * union + 3 * inter * maxLen,
                        10 * maxLen * union>>

\* similarity >= nameSimilarityThreshold (0.85).
SimilarEnough(str1, str2) ==
    LET sim == calculateSimilarity(str1, str2)
    IN  100 * sim[1] >= 85 * sim[2]

durationTolerance(options) == OrDefault(options.durationToleranceSeconds, 30)
sizeTolerance(options) == OrDefault(options.fileSizeTolerancePercent, 5)
resolutionTolerance(options) == OrDefault(options.resolutionTolerancePercent, 10)

\* (|a - b| / max(a, b)) * 100 <= pct, for a, b > 0.
PercentWithin(a, b, pct) == Abs(a - b) * 100 <= pct * Max(a, b)

AnyCheck(options) ==
    options.checkDuration \/ options.checkFileSize \/ options.checkResolution \/ options.checkMimeType

\* The exact-name rule with "or" where the code has "and": one enabled check
\* that passes is enough.
StrictChecksAny(row, duration, sizeMB, options, width, height, mimeType) ==
    \/ /\ options.checkDuration
       /\ duration # 0 /\ row.duration # 0
       /\ Abs(duration - row.duration) <= durationTolerance(options)
    \/ /\ options.checkFileSize
       /\ sizeMB # 0 /\ row.sizeMB # 0
       /\ PercentWithin(sizeMB, row.sizeMB, sizeTolerance(options))
    \/ /\ options.checkResolution
       /\ width # 0 /\ height # 0 /\ row.width # 0 /\ row.height # 0
       /\ PercentWithin(width * height, row.width * row.height, resolutionTolerance(options))
    \/ /\ options.checkMimeType
       /\ mimeType # <<>> /\ row.mimeType # <<>>
       /\ ToLower(mimeType) = ToLower(row.mimeType)

\* The exact-name rule: every enabled check has the data on both sides and passes.
StrictChecks(row, duration, sizeMB, options, width, height, mimeType) ==
    /\ options.checkDuration =>
          /\ duration # 0 /\ row.duration # 0
          /\ Abs(duration - row.duration) <= durationTolerance(options)
    /\ options.checkFileSize =>
          /\ sizeMB # 0 /\ row.sizeMB # 0
          /\ PercentWithin(sizeMB, row.sizeMB, sizeTolerance(options))
    /\ options.checkResolution =>
          /\ width # 0 /\ height # 0 /\ row.width # 0 /\ row.height # 0
          /\ PercentWithin(width * height, row.width * row.height, resolutionTolerance(options))
    /\ options.checkMimeType =>
          /\ mimeType # <<>> /\ row.mimeType # <<>>
          /\ ToLower(mimeType) = ToLower(row.mimeType)

\* The near-name rule: an enabled check fails only when both sides have the
\* data and it is out of tolerance.
LenientChecks(row, duration, sizeMB, options, width, height, mimeType) ==
    /\ (options.checkDuration /\ duration # 0 /\ row.duration # 0) =>
          Abs(duration - row.duration) <= durationTolerance(options)
    /\ (options.checkFileSize /\ sizeMB # 0 /\ row.sizeMB # 0) =>
          PercentWithin(sizeMB, row.sizeMB, sizeTolerance(options))
    /\ (options.checkResolution /\ width # 0 /\ height # 0 /\ row.width # 0 /\ row.height # 0) =>
          PercentWithin(width * height, row.width * row.height, resolutionTolerance(options))
    /\ (options.checkMimeType /\ mimeType # <<>> /\ row.mimeType # <<>>) =>
          ToLower(mimeType) = ToLower(row.mimeType)

\* The guard of the near-name and fallback paths.
HasCheckableData(duration, sizeMB, options, width, height, mimeType) ==
    \/ options.checkDuration /\ duration # 0
    \/ options.checkFileSize /\ sizeMB # 0
    \/ options.checkResolution /\ width # 0 /\ height # 0
    \/ options.checkMimeType /\ mimeType # <<>>

\* The rows of the topic (or "*") with exactly this normalized name that the
\* exact-name loop accepts.
ExactMatches(videos, normalizedName, topicName, duration, sizeMB, options, width, height, mimeType) ==
    Filter(videos,
           [k \in 1..Len(videos) |->
               /\ videos[k].normalizedName = normalizedName
               /\ InTopic(videos[k], topicName)
               /\ (AnyCheck(options) =>
                      StrictChecks(videos[k], duration, sizeMB, options, width, height, mimeType))])

\* The near-name loop over rows k..Len(videos), results being what was pushed so far.
RECURSIVE NearMatches(_, _, _, _, _, _, _, _, _, _, _)
NearMatches(videos, k, results, normalizedName, topicName, duration, sizeMB, options, width, height, mimeType) ==
    IF k > Len(videos) THEN results
    ELSE LET candidate == videos[k]
             take ==
                 /\ InTopic(candidate, topicName)
                 /\ ~\E r \in 1..Len(results) :
                        /\ results[r].fileName = candidate.fileName
                        /\ results[r].normalizedName = candidate.normalizedName
                 /\ SimilarEnough(normalizedName, candidate.normalizedName)
                 /\ LenientChecks(candidate, duration, sizeMB, options, width, height, mimeType)
         IN  NearMatches(videos, k + 1,
                         IF take THEN Append(results, candidate) ELSE results,
                         normalizedName, topicName, duration, sizeMB, options, width, height, mimeType)

\* No metadata-only fallback: the third path returns nothing.
FallbackNone(videos, topicName, duration, sizeMB, options, width, height, mimeType) == <<>>

\* The metadata-only fallback loop.
FallbackMatches(videos, topicName, duration, sizeMB, options, width, height, mimeType) ==
    Filter(videos,
           [k \in 1..Len(videos) |->
               /\ InTopic(videos[k], topicName)
               /\ StrictChecks(videos[k], duration, sizeMB, options, width, height, mimeType)])

findAllSimilarVideosInTopic(videos, fileName, normalizedName, topicName, duration, sizeMB, options, width, height, mimeType) ==
    LET exact == ExactMatches(videos, normalizedName, topicName, duration, sizeMB, options, width, height, mimeType)
    IN  IF ~HasCheckableData(duration, sizeMB, options, width, height, mimeType) THEN exact
        ELSE LET near == NearMatches(videos, 1, exact, normalizedName, topicName, duration, sizeMB, options, width, height, mimeType)
             IN  IF near # <<>> THEN near
                 ELSE FallbackMatches(videos, topicName, duration, sizeMB, options, width, height, mimeType)

\* The first accepted row, or <<>> for null: the result as a sequence of 0 or 1 rows.
findSimilarVideoInTopic(videos, fileName, normalizedName, topicName, duration, sizeMB, options, width, height, mimeType) ==
    LET results == findAllSimilarVideosInTopic(videos, fileName, normalizedName, topicName, duration, sizeMB, options, width, height, mimeType)
    IN  IF results # <<>> THEN <<results[1]>> ELSE <<>>

(***************************************************************************)
(* The state.                                                              *)
(***************************************************************************)
VARIABLES
    sortConfig,          \* the configuration of the run (types/config.ts)
    processedMessages,   \* Store: table processed_messages
    processedVideos,     \* Store: table processed_videos, in insertion order
    destination,         \* the destination chat: the messages in its topics
    destSeq,             \* the id the destination chat gives its next message
    forwardingLog,       \* the audit log file (ForwardingLogger)
    topicMessageCache,   \* VideoProcessor.topicMessageCache
    run,                 \* the number of the current run of the program
    pc,                  \* where the runner / scanner stands
    srcIdx,              \* processVideos: index of the dialog being processed
    totalProcessed,      \* processVideos: totalProcessed
    totalForwarded,      \* processVideos: totalForwarded
    forwardStats,        \* processVideos: forwardStats
    processed,           \* processSource: processed
    forwarded,           \* processSource: forwarded
    offsetId,            \* processSource: offsetId
    hasMore,             \* processSource: hasMore
    page,                \* processSource: messages (the ids of the fetched page)
    batch,               \* processSource: the mediaMessages still to be handled
    cur,                 \* processSource: message (<<>> outside the loop body)
    matchedStrings,      \* processSource: matchedStrings
    remaining,           \* getTopicsToForwardWithDuplicateHandling: topics not yet handled
    topicsToForward,     \* getTopicsToForwardWithDuplicateHandling: topicsToForward
    deletedCount,        \* getTopicsToForwardWithDuplicateHandling: deletedCount
    tasks,               \* forwardToTopics: the state of each forward promise
    replacing,           \* history: what the partition of lines 351-371 found for the message in hand
    observed,            \* history: the keys the per-message loop has taken up
    decided,             \* history: the keys the Predicate has been evaluated on
    redecided,           \* history: the Predicate was evaluated twice on one key
    forwardedKeys,       \* history: source messages with a successful forward in this run
    issued,              \* history: the destructive RPCs invoked in this run
    sweepOffsetId,       \* cleanupForumGroup: offsetId
    sweepBatch,          \* cleanupForumGroup: the messages of the page still to be handled
    videosByTopic,       \* cleanupForumGroup: videosByTopic, as <<topic, name, id>> entries in insertion order
    totalExcluded,       \* cleanupForumGroup: totalExcluded
    totalDuplicates,     \* cleanupForumGroup: totalDuplicates
    sweepLog,            \* history: the calls of cleanupForumGroup, their failures and deletions
    oracle,              \* a query to the Oracle: its arguments and the rows it returned
    storeCall,           \* the last write to the Store: its arguments, the Store before it, its result
    probe,               \* a call of a text function: its arguments and what it returned
    cleanup,             \* the cleanup-duplicates utility: its locals and what it has done
    legacyLogFile,       \* processed-messages.txt: <<>> absent, else <<lines>>
    legacyVideoNamesFile, \* processed-messages-videos.txt: <<>> absent, else <<lines>>
    legacyMetadataFile,  \* processed-messages-metadata.json: <<>> absent, else <<entries>>
    backups,             \* the legacy files renamed with a .backup suffix
    rpc,                 \* driver: where the wrapper stands
    wrapper,             \* driver: the wrapper that runs (forwardMessage / fetchTopicMessages)
    retryCount,          \* driver: retryCount of the wrapper
    success,             \* driver: success of the wrapper
    calls,               \* driver history: invocations of the RPC with its current arguments
    trace,               \* driver history: the calls and sleeps of the current retry loop
    errors,              \* driver history: the errors the current retry loop has met
    batchCount,          \* fetchTopicMessages: batchCount
    topicOffsetId,       \* fetchTopicMessages: offsetId
    topicHasMore,        \* fetchTopicMessages: hasMore
    fetchedMessages,     \* fetchTopicMessages: messageMap (the ids it holds)
    result               \* driver: what forwardMessage returned

storeVars == <<processedMessages, processedVideos>>

legacyVars == <<legacyLogFile, legacyVideoNamesFile, legacyMetadataFile, backups>>

scanVars ==
    <<sortConfig, destination, destSeq, topicMessageCache, run, pc, srcIdx,
      totalProcessed, totalForwarded, forwardStats, processed, forwarded, offsetId,
      hasMore, page, batch, cur, matchedStrings, remaining, topicsToForward,
      deletedCount, tasks, replacing, observed, decided, redecided, forwardedKeys,
      issued, sweepOffsetId, sweepBatch, videosByTopic, totalExcluded, totalDuplicates,
      sweepLog>>

driverVars ==
    <<rpc, wrapper, retryCount, success, calls, trace, errors, batchCount,
      topicOffsetId, topicHasMore, fetchedMessages, result>>

vars ==
    <<storeVars, legacyVars, scanVars, driverVars, forwardingLog, oracle, storeCall, probe,
      cleanup>>

(***************************************************************************)
(* The world of the scanner model: the configuration, the sources and the  *)
(* contents a source message may have.                                     *)
(***************************************************************************)
\* Bounds of the model.
NumSources == 2
MsgsPerSource == 3
MaxRuns == 2
MaxForwardsCap == 2
\* The page size of GetHistory: the code asks for 100, the model for fewer.
PageLimit == 2
\* The batch size of the sweeper's DeleteMessages: 100 in the code, fewer in
\* the model.
BatchSize == 2

\* videoMatches and videoExclusions of the configuration.
matches == << <<"k">>, <<"q">> >>
exclusions == << <<"z">> >>

NoChecks ==
    [checkDuration |-> FALSE, durationToleranceSeconds |-> 0,
     checkFileSize |-> FALSE, fileSizeTolerancePercent |-> 0,
     checkResolution |-> FALSE, resolutionTolerancePercent |-> 0,
     checkMimeType |-> FALSE, normalizeFilenames |-> TRUE]

DurationCheck == [NoChecks EXCEPT !.checkDuration = TRUE, !.durationToleranceSeconds = 2]

\* The configurations the scanner is run with.  0 stands for an unset optional bound.
Configs ==
    [dryRun : BOOLEAN,
     skipCleanup : BOOLEAN,
     maxForwards : 1..MaxForwardsCap,
     minVideoDurationInSeconds : {3},
     maxVideoDurationInSeconds : {0},
     minFileSizeMB : {0},
     maxFileSizeMB : {50},
     duplicateDetection : {NoChecks, DurationCheck}]

Video(fileName, duration, sizeMB) ==
    [id |-> 0, media |-> TRUE, document |-> TRUE, video |-> TRUE, videoAttr |-> TRUE,
     duration |-> duration, fileName |-> fileName, message |-> <<>>,
     sizeMB |-> sizeMB, width |-> 0, height |-> 0, mimeType |-> <<>>]

\* What a media message of a source may hold: two spellings of one video for
\* topic k, a video for both topics, an excluded video and one above
\* maxFileSizeMB.
MessageKinds ==
    { Video(<<"K","1",".","m","p","4">>, 5, 10),
      Video(<<"k","1","_","7","2","0","p",".","m","k","v">>, 6, 10),
      Video(<<"k","q",".","m","p","4">>, 9, 20),
      Video(<<"k","z",".","m","p","4">>, 5, 10),
      Video(<<"k","2",".","m","p","4">>, 5, 90) }

\* A message without media (plain text).
TextMessage(id) ==
    [id |-> id, media |-> FALSE, document |-> FALSE, video |-> FALSE, videoAttr |-> FALSE,
     duration |-> 0, fileName |-> <<>>, message |-> <<"h","i">>,
     sizeMB |-> 0, width |-> 0, height |-> 0, mimeType |-> <<>>]

Sources == 1..NumSources

\* The first source holds the messages 1..MsgsPerSource and every further
\* source one message fewer; message 1, the oldest, is plain text, the others
\* carry media.
SourceLen(sourceId) == MsgsPerSource + 1 - sourceId

HasMedia(id) == id > 1

\* messages.GetHistory: the page after offsetId, newest first (offsetId 0: from the top).
RECURSIVE Descending(_, _)
Descending(from, n) ==
    IF n = 0 \/ from < 1 THEN <<>> ELSE <<from>> \o Descending(from - 1, n - 1)

HistoryPage(sourceId, offset) ==
    Descending(IF offset = 0 THEN SourceLen(sourceId) ELSE offset - 1, PageLimit)

MessageKey(sourceId, id) == <<sourceId, id>>

Topics == {matches[k] : k \in 1..Len(matches)}

SeqToSet(seq) == {seq[k] : k \in 1..Len(seq)}

(***************************************************************************)
(* services/video-processor.ts: the pure parts of the scanner.             *)
(***************************************************************************)
\* getVideoResolution: the video attribute's w and h, when both are there.
getVideoResolution(m) ==
    IF m.document /\ m.videoAttr /\ m.width # 0 /\ m.height # 0
    THEN [width |-> m.width, height |-> m.height]
    ELSE [width |-> 0, height |-> 0]

\* getMimeType: the document's mimeType.
getMimeType(m) == IF m.document THEN m.mimeType ELSE <<>>

extractVideoMetadata(message) ==
    LET fileName == getFileName(message)
        resolution == getVideoResolution(message)
    IN  [fileName |-> fileName,
         normalizedName |-> IF sortConfig.duplicateDetection.normalizeFilenames
                            THEN normalizeFileName(fileName)
                            ELSE ToLower(fileName),
         duration |-> getVideoDuration(message),
         sizeMB |-> getFileSizeMB(message),
         width |-> resolution.width,
         height |-> resolution.height,
         mimeType |-> getMimeType(message)]

validateVideoConstraints(videoMeta) ==
    /\ ~(sortConfig.minFileSizeMB # 0 /\ videoMeta.sizeMB < sortConfig.minFileSizeMB)
    /\ ~(sortConfig.maxFileSizeMB # 0 /\ videoMeta.sizeMB > sortConfig.maxFileSizeMB)
    /\ ~(/\ sortConfig.maxVideoDurationInSeconds # 0
         /\ videoMeta.duration # 0
         /\ videoMeta.duration > sortConfig.maxVideoDurationInSeconds)

\* The Oracle's verdict for a candidate in one topic, as the scanner asks for it.
SimilarInTopic(videos, videoMeta, topic) ==
    findSimilarVideoInTopic(videos, videoMeta.fileName, videoMeta.normalizedName, topic, videoMeta.duration, videoMeta.sizeMB, sortConfig.duplicateDetection, videoMeta.width, videoMeta.height, videoMeta.mimeType)

AllSimilarInTopic(videos, videoMeta, topic) ==
    findAllSimilarVideosInTopic(videos, videoMeta.fileName, videoMeta.normalizedName, topic, videoMeta.duration, videoMeta.sizeMB, sortConfig.duplicateDetection, videoMeta.width, videoMeta.height, videoMeta.mimeType)

\* processSource, lines 351-371: the matched topics in which the Oracle finds a row.
existingTopics(videos, videoMeta, matched) ==
    Filter(matched, [k \in 1..Len(matched) |-> SimilarInTopic(videos, videoMeta, matched[k]) # <<>>])

newTopics(videos, videoMeta, matched) ==
    Filter(matched, [k \in 1..Len(matched) |-> SimilarInTopic(videos, videoMeta, matched[k]) = <<>>])

\* processSource, lines 383-397: saveProcessedVideoName for each new topic.
RECURSIVE PreRegister(_, _, _)
PreRegister(videos, videoMeta, topics) ==
    IF topics = <<>> THEN videos
    ELSE PreRegister(
            saveProcessedVideoName(videos, videoMeta.fileName, Head(topics), videoMeta.duration, videoMeta.sizeMB, videoMeta.normalizedName, videoMeta.width, videoMeta.height, videoMeta.mimeType),
            videoMeta, Tail(topics))

\* findAndDeleteDuplicatesInTopic, lines 98-130: destination message msg (its
\* document doc) is one of the duplicates d.
IsDuplicateMessage(doc, d) ==
    LET options == sortConfig.duplicateDetection
        msgDuration == getVideoDuration(doc)
        msgSizeMB == getFileSizeMB(doc)
        msgResolution == getVideoResolution(doc)
        msgMimeType == getMimeType(doc)
    IN  /\ d.normalizedName = normalizeFileName(getFileName(doc))
        /\ (options.checkDuration /\ msgDuration # 0 /\ d.duration # 0) =>
              Abs(msgDuration - d.duration) <= durationTolerance(options)
        /\ (options.checkFileSize /\ msgSizeMB # 0 /\ d.sizeMB # 0) =>
              PercentWithin(msgSizeMB, d.sizeMB, sizeTolerance(options))
        /\ (options.checkResolution /\ msgResolution.width # 0 /\ d.width # 0 /\ d.height # 0) =>
              PercentWithin(msgResolution.width * msgResolution.height, d.width * d.height, resolutionTolerance(options))
        /\ (options.checkMimeType /\ msgMimeType # <<>> /\ d.mimeType # <<>>) =>
              ToLower(msgMimeType) = ToLower(d.mimeType)

\* findAndDeleteDuplicatesInTopic, lines 79-135: the ids of the cached messages
\* that match a duplicate.
messageIdsToDelete(messageMap, duplicates) ==
    {msg.id : msg \in {m \in messageMap :
                          /\ m.doc.media /\ m.doc.document
                          /\ \E k \in 1..Len(duplicates) : IsDuplicateMessage(m.doc, duplicates[k])}}

\* The cache entry of a topic that has not been loaded.
NotCached == [cached |-> FALSE, messages |-> {}]

\* An entry that holds the messages and does not count as loaded.
Uncached(messageMap) == [cached |-> FALSE, messages |-> messageMap]

\* topicMessageCache.set(topicId, messageMap)
Cached(messageMap) == [cached |-> TRUE, messages |-> messageMap]

(***************************************************************************)
(* The runner (telegram-sorter.ts, processVideos) and the scanner          *)
(* (video-processor.ts, processSource).  pc is                             *)
(*   "runner"   at the head of processVideos' loop over the sources        *)
(*   "history"  processSource awaits GetHistory                            *)
(*   "message"  at the head of the loop over the page's media messages     *)
(*   "decide"   the message is committed; the Predicate comes next         *)
(*   "dedup"    in getTopicsToForwardWithDuplicateHandling                 *)
(*   "fanout"   forwardToTopics awaits its forward promises                *)
(*   "finished" the run is over                                            *)
(***************************************************************************)
\* replacing outside the handling of a message, and in it: the matched topics in
\* which findSimilarVideoInTopic found a row (existingTopics), and the id the
\* destination gives its next message at that moment.
NotReplacing == [topics |-> {}, from |-> 0]

localVars ==
    <<processed, forwarded, offsetId, hasMore, page, batch, cur, matchedStrings,
      remaining, topicsToForward, deletedCount, tasks, replacing>>

historyVars == <<observed, decided, redecided, forwardedKeys, issued>>

sweepVars ==
    <<sweepOffsetId, sweepBatch, videosByTopic, totalExcluded, totalDuplicates, sweepLog>>

idleVars == <<legacyVars, driverVars, sweepVars, oracle, storeCall, probe, cleanup>>

\* The locals of processSource as a call starts with them.
ResetLocals(startForwarded) ==
    /\ processed' = 0
    /\ forwarded' = startForwarded
    /\ offsetId' = 0
    /\ hasMore' = TRUE
    /\ page' = <<>>
    /\ batch' = <<>>
    /\ cur' = <<>>
    /\ matchedStrings' = <<>>
    /\ remaining' = <<>>
    /\ topicsToForward' = <<>>
    /\ deletedCount' = 0
    /\ tasks' = <<>>
    /\ replacing' = NotReplacing

\* The runner and the scanner as a run starts.
\* The first call of cleanupForumGroup: no RPC has failed, nothing is deleted.
NoSweep ==
    [pass |-> 1, fetched |-> FALSE, failed |-> FALSE, deleted |-> {}, earlier |-> {},
     paged |-> FALSE, tracked |-> <<>>, queued |-> {}, excluded |-> {}, rpcs |-> <<>>]

ScanStart ==
    /\ sortConfig \in Configs
    /\ forwardingLog = <<>>
    /\ topicMessageCache = [t \in Topics |-> NotCached]
    /\ run = 1
    /\ srcIdx = 1
    /\ totalProcessed = 0
    /\ totalForwarded = 0
    /\ forwardStats = [t \in Topics |-> 0]
    /\ processed = 0
    /\ forwarded = 0
    /\ offsetId = 0
    /\ hasMore = TRUE
    /\ page = <<>>
    /\ batch = <<>>
    /\ cur = <<>>
    /\ matchedStrings = <<>>
    /\ remaining = <<>>
    /\ topicsToForward = <<>>
    /\ deletedCount = 0
    /\ tasks = <<>>
    /\ replacing = NotReplacing
    /\ observed = {}
    /\ decided = {}
    /\ redecided = FALSE
    /\ forwardedKeys = {}
    /\ issued = {}
    /\ sweepOffsetId = 0
    /\ sweepBatch = <<>>
    /\ videosByTopic = <<>>
    /\ totalExcluded = 0
    /\ totalDuplicates = 0
    /\ sweepLog = NoSweep

\* The first run: nothing has been forwarded to the destination yet.
ScanInit ==
    /\ ScanStart
    /\ ~sortConfig.skipCleanup
    /\ pc = "runner"
    /\ destination = {}
    /\ destSeq = 1

StoreEmpty ==
    /\ processedMessages = {}
    /\ processedVideos = <<>>

\* A legacy file: whether it exists, its lines (or JSON entries) and whether
\* it parses.
NoFile == [exists |-> FALSE, lines |-> <<>>, valid |-> TRUE]

File(lines) == [exists |-> TRUE, lines |-> lines, valid |-> TRUE]

LegacyIdle ==
    /\ legacyLogFile = NoFile
    /\ legacyVideoNamesFile = NoFile
    /\ legacyMetadataFile = NoFile
    /\ backups = {}

DriverIdle ==
    /\ rpc = "idle"
    /\ wrapper = "none"
    /\ retryCount = 0
    /\ success = FALSE
    /\ calls = 0
    /\ trace = <<>>
    /\ errors = <<>>
    /\ batchCount = 0
    /\ topicOffsetId = 0
    /\ topicHasMore = TRUE
    /\ fetchedMessages = {}
    /\ result = FALSE

\* No query to the Oracle is under study.
NoQuery ==
    [fileName |-> <<>>, normalizedName |-> <<>>, topicName |-> <<>>, duration |-> 0,
     sizeMB |-> 0, options |-> NoChecks, asked |-> FALSE, rows |-> <<>>,
     reasked |-> FALSE, before |-> <<>>, configured |-> {}]

OracleIdle == oracle = NoQuery

\* No write to the Store is under study.
NoCall ==
    [op |-> "none", messageId |-> <<>>, normalizedName |-> <<>>, normalizedNames |-> {},
     topicName |-> <<>>, messages |-> {}, videos |-> <<>>, changes |-> 0]

\* No text function is under study.
NoProbe ==
    [fn |-> "none", done |-> FALSE, message |-> TextMessage(0), matches |-> <<>>,
     exclusions |-> <<>>, minDuration |-> 0, other |-> <<>>, once |-> <<>>, twice |-> <<>>,
     otherOnce |-> <<>>, excluded |-> FALSE]

\* The cleanup-duplicates utility does not run.
NoCleanup ==
    [step |-> "idle", dryRun |-> TRUE, topic |-> 0, videos |-> <<>>, groups |-> <<>>,
     pending |-> <<>>, found |-> {}, reported |-> {}, issuedIds |-> {}, deleted |-> {},
     deletedCount |-> 0, before |-> {}]

CleanupIdle == cleanup = NoCleanup

\* No write to the Store and no text function is under study.
CallIdle == storeCall = NoCall /\ probe = NoProbe

Init ==
    ScanInit /\ StoreEmpty /\ LegacyIdle /\ DriverIdle /\ OracleIdle /\ CallIdle /\ CleanupIdle

\* processVideos, lines 131-132: processSource returned {processed, forwarded}.
ReturnToRunner(p, f) ==
    /\ totalProcessed' = totalProcessed + p
    /\ totalForwarded' = f
    /\ srcIdx' = srcIdx + 1
    /\ pc' = "runner"
    /\ ResetLocals(0)

\* processVideos, lines 133-135: processSource threw; the error is logged.
ThrowToRunner ==
    /\ srcIdx' = srcIdx + 1
    /\ pc' = "runner"
    /\ ResetLocals(0)
    /\ UNCHANGED <<totalProcessed, totalForwarded>>

\* processVideos, lines 106-129: the head of the loop over the sources.
RunnerNext ==
    /\ pc = "runner"
    /\ IF srcIdx > NumSources \/ totalForwarded >= sortConfig.maxForwards
       THEN /\ pc' = "finished"
            /\ UNCHANGED localVars
       ELSE /\ pc' = "history"
            /\ ResetLocals(totalForwarded)
    /\ UNCHANGED <<sortConfig, storeVars, destination, destSeq, forwardingLog,
                   topicMessageCache, run, srcIdx, totalProcessed, totalForwarded,
                   forwardStats, historyVars, idleVars>>

\* processSource, lines 285-295: GetHistory throws; nothing in processSource catches it.
GetHistoryThrows ==
    /\ pc = "history"
    /\ ThrowToRunner
    /\ UNCHANGED <<sortConfig, storeVars, destination, destSeq, forwardingLog,
                   topicMessageCache, run, forwardStats, historyVars, idleVars>>

\* processSource, lines 285-311: GetHistory answers.
GetHistoryReturns ==
    /\ pc = "history"
    /\ LET messages == HistoryPage(srcIdx, offsetId)
       IN  IF messages = <<>>
           THEN /\ ReturnToRunner(processed, forwarded)
                /\ UNCHANGED forwardStats
           ELSE /\ page' = messages
                /\ batch' = Filter(messages, [k \in 1..Len(messages) |-> HasMedia(messages[k])])
                /\ pc' = "message"
                /\ UNCHANGED <<processed, forwarded, offsetId, hasMore, cur,
                               matchedStrings, remaining, topicsToForward, deletedCount,
                               tasks, replacing, srcIdx, totalProcessed, totalForwarded,
                               forwardStats>>
    /\ UNCHANGED <<sortConfig, storeVars, destination, destSeq, forwardingLog,
                   topicMessageCache, run, historyVars, idleVars>>

\* processSource, lines 434-441: the page is done; the cursor advances.
EndOfBatch ==
    /\ pc = "message"
    /\ batch = <<>>
    /\ offsetId' = page[Len(page)]
    /\ pc' = "history"
    /\ UNCHANGED <<processed, forwarded, hasMore, page, batch, cur, matchedStrings,
                   remaining, topicsToForward, deletedCount, tasks, replacing>>
    /\ UNCHANGED <<sortConfig, storeVars, destination, destSeq, forwardingLog,
                   topicMessageCache, run, srcIdx, totalProcessed, totalForwarded,
                   forwardStats, historyVars, idleVars>>

\* processSource, lines 313-319: a message whose key is in the Store is skipped.
SkipProcessed ==
    /\ pc = "message"
    /\ batch # <<>>
    /\ hasProcessedMessage(processedMessages, MessageKey(srcIdx, Head(batch)))
    /\ batch' = Tail(batch)
    /\ observed' = observed \cup {MessageKey(srcIdx, Head(batch))}
    /\ UNCHANGED <<processed, forwarded, offsetId, hasMore, page, cur, matchedStrings,
                   remaining, topicsToForward, deletedCount, tasks, replacing>>
    /\ UNCHANGED <<sortConfig, storeVars, destination, destSeq, forwardingLog,
                   topicMessageCache, run, pc, srcIdx, totalProcessed, totalForwarded,
                   forwardStats, decided, redecided, forwardedKeys, issued, idleVars>>

\* processSource, lines 313-323: a new message is committed.  What the
\* message holds is read here for the first and only time.
Commit ==
    /\ pc = "message"
    /\ batch # <<>>
    /\ ~hasProcessedMessage(processedMessages, MessageKey(srcIdx, Head(batch)))
    /\ processedMessages' = saveProcessedMessage(processedMessages, MessageKey(srcIdx, Head(batch)))
    /\ \E kind \in MessageKinds : cur' = [kind EXCEPT !.id = Head(batch)]
    /\ batch' = Tail(batch)
    /\ observed' = observed \cup {MessageKey(srcIdx, Head(batch))}
    /\ pc' = "decide"
    /\ UNCHANGED <<processed, forwarded, offsetId, hasMore, page, matchedStrings,
                   remaining, topicsToForward, deletedCount, tasks, replacing>>
    /\ UNCHANGED <<sortConfig, processedVideos, destination, destSeq, forwardingLog,
                   topicMessageCache, run, srcIdx, totalProcessed, totalForwarded,
                   forwardStats, decided, redecided, forwardedKeys, issued, idleVars>>

\* continue: on to the next message of the page.
ContinueLoop ==
    /\ pc' = "message"
    /\ cur' = <<>>
    /\ matchedStrings' = <<>>
    /\ remaining' = <<>>
    /\ topicsToForward' = <<>>
    /\ deletedCount' = 0
    /\ tasks' = <<>>
    /\ replacing' = NotReplacing

\* processSource, lines 325-397: the Predicate, the cap, the constraints, the
\* partition of the matched topics and the pre-registration.
Decide ==
    /\ pc = "decide"
    /\ LET key == MessageKey(srcIdx, cur.id)
           matched == matchesVideo(cur, matches, exclusions, sortConfig.minVideoDurationInSeconds)
           videoMeta == extractVideoMetadata(cur)
           existing == existingTopics(processedVideos, videoMeta, matched)
           new == newTopics(processedVideos, videoMeta, matched)
       IN  /\ decided' = decided \cup {key}
           /\ redecided' = (redecided \/ key \in decided)
           /\ IF matched = <<>>
              THEN /\ ContinueLoop
                   /\ processed' = processed + 1
                   /\ UNCHANGED <<forwarded, offsetId, hasMore, page, batch, processedVideos,
                                  srcIdx, totalProcessed, totalForwarded>>
              ELSE IF forwarded >= sortConfig.maxForwards
              THEN /\ ReturnToRunner(processed + 1, forwarded)
                   /\ UNCHANGED processedVideos
              ELSE IF ~validateVideoConstraints(videoMeta) \/ (existing # <<>> /\ new = <<>>)
              THEN /\ ContinueLoop
                   /\ processed' = processed + 1
                   /\ UNCHANGED <<forwarded, offsetId, hasMore, page, batch, processedVideos,
                                  srcIdx, totalProcessed, totalForwarded>>
              ELSE /\ processedVideos' =
                          IF sortConfig.dryRun THEN processedVideos
                          ELSE PreRegister(processedVideos, videoMeta, new)
                   /\ processed' = processed + 1
                   /\ matchedStrings' = matched
                   /\ remaining' = matched
                   /\ topicsToForward' = <<>>
                   /\ deletedCount' = 0
                   /\ replacing' = [topics |-> SeqToSet(existing), from |-> destSeq]
                   /\ pc' = "dedup"
                   /\ UNCHANGED <<forwarded, offsetId, hasMore, page, batch, cur, tasks,
                                  srcIdx, totalProcessed, totalForwarded>>
    /\ UNCHANGED <<sortConfig, processedMessages, destination, destSeq, forwardingLog,
                   topicMessageCache, run, forwardStats, observed, forwardedKeys, issued,
                   idleVars>>

\* getTopicsToForwardWithDuplicateHandling, lines 502-543, for the next matched
\* topic, with findAndDeleteDuplicatesInTopic (lines 40-177) when the Oracle
\* finds a row.  fetched: fetchTopicMessages got the topic's messages (they fit
\* one page), else it gave up with none; deleted: DeleteMessages succeeded.
DedupTopic(fetched, deleted) ==
    /\ pc = "dedup"
    /\ remaining # <<>>
    /\ LET topic == Head(remaining)
           videoMeta == extractVideoMetadata(cur)
           duplicates == AllSimilarInTopic(processedVideos, videoMeta, topic)
           cached == topicMessageCache[topic].cached
           messageMap ==
               IF cached THEN topicMessageCache[topic].messages
               ELSE IF fetched THEN {m \in destination : m.topic = topic}
               ELSE {}
           ids == messageIdsToDelete(messageMap, duplicates)
           names == {duplicates[k].normalizedName : k \in 1..Len(duplicates)}
           pushed ==
               /\ remaining' = Tail(remaining)
               /\ topicsToForward' = Append(topicsToForward, topic)
               /\ UNCHANGED <<pc, processed, forwarded, offsetId, hasMore, page, batch,
                              cur, matchedStrings, tasks, replacing, srcIdx, totalProcessed,
                              totalForwarded>>
       IN  IF SimilarInTopic(processedVideos, videoMeta, topic) = <<>>
           THEN /\ fetched /\ deleted
                /\ pushed
                /\ UNCHANGED <<processedVideos, destination, topicMessageCache, deletedCount,
                               issued>>
           ELSE /\ (cached => fetched)
                /\ IF ids = {}
                   THEN /\ deleted
                        /\ topicMessageCache' = [topicMessageCache EXCEPT ![topic] = Cached(messageMap)]
                        /\ processedVideos' = deleteVideosFromTopic(processedVideos, names, topic)
                        /\ pushed
                        /\ UNCHANGED <<destination, deletedCount, issued>>
                   ELSE IF sortConfig.dryRun
                   THEN /\ deleted
                        /\ topicMessageCache' = [topicMessageCache EXCEPT ![topic] = Cached(messageMap)]
                        /\ deletedCount' = deletedCount + Cardinality(ids)
                        /\ pushed
                        /\ UNCHANGED <<processedVideos, destination, issued>>
                   ELSE IF deleted
                   THEN /\ destination' = {m \in destination : m.id \notin ids}
                        /\ topicMessageCache' =
                               [topicMessageCache EXCEPT ![topic] = Cached({m \in messageMap : m.id \notin ids})]
                        /\ processedVideos' = deleteVideosFromTopic(processedVideos, names, topic)
                        /\ deletedCount' = deletedCount + Cardinality(ids)
                        /\ issued' = issued \cup {"DeleteMessages"}
                        /\ pushed
                   ELSE /\ topicMessageCache' = [topicMessageCache EXCEPT ![topic] = Cached(messageMap)]
                        /\ issued' = issued \cup {"DeleteMessages"}
                        /\ ThrowToRunner
                        /\ UNCHANGED <<processedVideos, destination>>
    /\ UNCHANGED <<sortConfig, processedMessages, destSeq, forwardingLog, run,
                   forwardStats, observed, decided, redecided, forwardedKeys, idleVars>>

\* forwardStats[t]++ for each topic of ts.
RECURSIVE BumpStats(_, _)
BumpStats(stats, ts) ==
    IF ts = <<>> THEN stats
    ELSE BumpStats([stats EXCEPT ![Head(ts)] = @ + 1], Tail(ts))

\* processSource, lines 406-430 with forwardToTopics, lines 620-662: the
\* forwards are started, one promise per topic (in a dry run they are only
\* counted, and the call returns true at once).
StartForward ==
    /\ pc = "dedup"
    /\ remaining = <<>>
    /\ IF topicsToForward = <<>>
       THEN /\ ContinueLoop
            /\ UNCHANGED <<forwarded, forwardStats>>
       ELSE IF sortConfig.dryRun
       THEN /\ forwardStats' = BumpStats(forwardStats, topicsToForward)
            /\ forwarded' = forwarded + 1
            /\ ContinueLoop
       ELSE /\ tasks' = [k \in 1..Len(topicsToForward) |-> "inflight"]
            /\ pc' = "fanout"
            /\ UNCHANGED <<forwarded, forwardStats, cur, matchedStrings, remaining,
                           topicsToForward, deletedCount, replacing>>
    /\ UNCHANGED <<processed, offsetId, hasMore, page, batch>>
    /\ UNCHANGED <<sortConfig, storeVars, destination, destSeq, forwardingLog,
                   topicMessageCache, run, srcIdx, totalProcessed, totalForwarded,
                   historyVars, idleVars>>

\* A logger that writes the new entry over the file.
logOverwrite(log, entry) == <<entry>>

\* ForwardingLogger.logForwardedVideo: read the log, push the entry, write it back.
logForwardedVideo(log, entry) == Append(log, entry)

\* MessageForwarder.forwardMessage for the k-th topic settles: with ok the
\* forward RPC went through (the message is in the topic and the audit entry
\* is written), without it the forwarder gave up and returns false.
ForwardSettles(k, ok) ==
    /\ pc = "fanout"
    /\ k \in 1..Len(tasks)
    /\ tasks[k] = "inflight"
    /\ issued' = issued \cup {"ForwardMessages"}
    /\ LET topic == topicsToForward[k]
           videoMeta == extractVideoMetadata(cur)
       IN  IF ok
           THEN /\ destination' = destination \cup
                       {[id |-> destSeq, topic |-> topic, doc |-> [cur EXCEPT !.id = 0]]}
                /\ destSeq' = destSeq + 1
                /\ forwardingLog' = logForwardedVideo(forwardingLog,
                       [fileName |-> videoMeta.fileName, matchedKeyword |-> topic,
                        topicName |-> topic, sourceGroup |-> srcIdx,
                        duration |-> videoMeta.duration, sizeMB |-> videoMeta.sizeMB])
                /\ tasks' = [tasks EXCEPT ![k] = "ok"]
                /\ forwardedKeys' = forwardedKeys \cup {MessageKey(srcIdx, cur.id)}
           ELSE /\ tasks' = [tasks EXCEPT ![k] = "failed"]
                /\ UNCHANGED <<destination, destSeq, forwardingLog, forwardedKeys>>
    /\ UNCHANGED <<processed, forwarded, offsetId, hasMore, page, batch, cur,
                   matchedStrings, remaining, topicsToForward, deletedCount, replacing>>
    /\ UNCHANGED <<sortConfig, storeVars, topicMessageCache, run, pc, srcIdx,
                   totalProcessed, totalForwarded, forwardStats, observed, decided,
                   redecided, idleVars>>

\* A join that goes on as soon as one promise has settled.
AnySettled(promises) == \E k \in 1..Len(promises) : promises[k] # "inflight"

\* await Promise.all(forwardPromises), line 643: no promise is pending.
AllSettled(promises) == \A k \in 1..Len(promises) : promises[k] # "inflight"

\* forwardToTopics, lines 643-652, and processSource, lines 428-430: every
\* promise has settled.
JoinForwards ==
    /\ pc = "fanout"
    /\ AllSettled(tasks)
    /\ LET allSucceeded == \A k \in 1..Len(tasks) : tasks[k] = "ok"
           succeeded == Filter(topicsToForward, [k \in 1..Len(tasks) |-> tasks[k] = "ok"])
       IN  /\ forwardStats' = BumpStats(forwardStats, succeeded)
           /\ forwarded' = IF allSucceeded THEN forwarded + 1 ELSE forwarded
    /\ ContinueLoop
    /\ UNCHANGED <<processed, offsetId, hasMore, page, batch>>
    /\ UNCHANGED <<sortConfig, storeVars, destination, destSeq, forwardingLog,
                   topicMessageCache, run, srcIdx, totalProcessed, totalForwarded,
                   historyVars, idleVars>>

\* The program is started again: a new process, with the Store, the audit log
\* and the destination as the last run left them.
NewRun ==
    /\ pc = "finished"
    /\ run < MaxRuns
    /\ run' = run + 1
    /\ pc' = "runner"
    /\ srcIdx' = 1
    /\ totalProcessed' = 0
    /\ totalForwarded' = 0
    /\ forwardStats' = [t \in Topics |-> 0]
    /\ topicMessageCache' = [t \in Topics |-> NotCached]
    /\ forwardedKeys' = {}
    /\ issued' = {}
    /\ UNCHANGED <<sortConfig, storeVars, destination, destSeq, forwardingLog,
                   localVars, observed, decided, redecided, idleVars>>

Next ==
    \/ RunnerNext
    \/ GetHistoryThrows
    \/ GetHistoryReturns
    \/ EndOfBatch
    \/ SkipProcessed
    \/ Commit
    \/ Decide
    \/ \E fetched \in BOOLEAN, deleted \in BOOLEAN : DedupTopic(fetched, deleted)
    \/ StartForward
    \/ \E k \in 1..2, ok \in BOOLEAN : ForwardSettles(k, ok)
    \/ JoinForwards
    \/ NewRun

Spec == Init /\ [][Next]_vars

(***************************************************************************)
(* Properties of the scanner.                                              *)
(***************************************************************************)
\* The candidate in hand: its key and its normalized name.
CurKey == MessageKey(srcIdx, cur.id)
CurName == extractVideoMetadata(cur).normalizedName

\* The number of rows (normalizedName, topicName) in processed_videos.
RowCount(videos, normalizedName, topicName) ==
    Cardinality({k \in 1..Len(videos) :
                    /\ videos[k].normalizedName = normalizedName
                    /\ videos[k].topicName = topicName})

InHand == pc \in {"decide", "dedup", "fanout"}

\* C1 (pre-commit): while a message is in hand (from the evaluation of the
\* Predicate to the end of its fan-out) its key is in the Store, every key the
\* Predicate was evaluated on or that was forwarded is in the Store, and no
\* step ever removes a message row.
C1_PreCommit ==
    [][ /\ processedMessages \subseteq processedMessages'
        /\ (InHand' => hasProcessedMessage(processedMessages', CurKey'))
        /\ decided' \subseteq processedMessages'
        /\ forwardedKeys' \subseteq processedMessages' ]_vars

\* A candidate whose forward failed is in hand, its message row in the Store.
C1_Witness ==
    /\ pc = "fanout"
    /\ \E k \in 1..Len(tasks) : tasks[k] = "failed"
    /\ hasProcessedMessage(processedMessages, CurKey)

\* C2 (pre-register precedes forward): whenever forward RPCs are in flight for
\* the candidate in hand, the Store holds a row (normalized name, topic) for
\* every topic that is forwarded to.
C2_RowAtForward ==
    pc = "fanout" =>
        \A k \in 1..Len(topicsToForward) :
            tasks[k] = "inflight" =>
                RowCount(processedVideos, CurName, topicsToForward[k]) >= 1

\* The normalized name of a message of the destination.
NameOf(m) == normalizeFileName(getFileName(m.doc))

\* C3 (no duplicate publication): in a non-dry run with no metadata check, a
\* topic never holds two forwarded copies with the same normalized name.
C3_NoDuplicate ==
    (~sortConfig.dryRun /\ sortConfig.duplicateDetection = NoChecks) =>
        \A m1 \in destination, m2 \in destination :
            (m1.topic = m2.topic /\ NameOf(m1) = NameOf(m2)) => m1 = m2

\* C4 (one row after a forward): when the fan-out of a candidate is over, the
\* Store holds exactly one row (normalized name, topic) for every topic the
\* candidate was forwarded into.
C4_OneRowAfterForward ==
    [][ (pc = "fanout" /\ pc' = "message") =>
            \A k \in 1..Len(topicsToForward) :
                tasks[k] = "ok" =>
                    RowCount(processedVideos', CurName, topicsToForward[k]) = 1 ]_vars

\* C5 (forward cap): in one run, the source messages with at least one
\* successful forward are at most maxForwards.
C5_ForwardCap == Cardinality(forwardedKeys) <= sortConfig.maxForwards

\* The next message of the batch is one the Store already holds.
AtProcessed ==
    /\ pc = "message"
    /\ batch # <<>>
    /\ hasProcessedMessage(processedMessages, MessageKey(srcIdx, Head(batch)))

\* C6 (progress idempotence): the keys in the Store are exactly the keys of
\* the messages the scanner's loop has taken up; the Predicate is never
\* evaluated twice on a key; and the step at a message whose key is in the
\* Store changes no counter, no Store table, no destination and no audit log.
C6_ProgressIdempotence ==
    [][ /\ processedMessages' = observed'
        /\ ~redecided'
        /\ (AtProcessed =>
               /\ UNCHANGED <<processed, forwarded, totalProcessed, totalForwarded,
                              forwardStats, storeVars, destination, forwardingLog,
                              decided>>
               /\ pc' = "message") ]_vars

\* In a later run, every media message of a page was skipped.
C6_Witness ==
    /\ run = 2
    /\ pc = "message"
    /\ batch = <<>>
    /\ \E k \in 1..Len(page) : HasMedia(page[k])
    /\ processed = 0

(***************************************************************************)
(* The Store on its own (services/storage.ts): any sequence of             *)
(* saveProcessedVideoName, deleteVideosFromTopic and the legacy migration. *)
(***************************************************************************)
\* File names and normalized names the Store is called with; <<>> is an
\* omitted normalizedName.
StoreFileNames == { <<"A">>, <<"b">> }
StoreNames == { <<>>, <<"a">> }

\* The legacy files the data directory may hold at start.
LegacyNameFiles ==
    { NoFile, File(<< <<"a">>, <<>>, <<" ", "a">>, <<"b">> >>) }

\* The legacy message log: a line is a message key, or <<>> for a blank line.
LegacyLogFiles == { NoFile, File(<< MessageKey(1, 1), <<>>, MessageKey(1, 1) >>) }

LegacyEntry(fileName, normalizedName) ==
    [fileName |-> fileName, normalizedName |-> normalizedName, duration |-> 7,
     sizeMB |-> 0, width |-> 0, height |-> 0, mimeType |-> <<>>]

LegacyMetadataFiles ==
    { NoFile,
      File(<< LegacyEntry(<<"A">>, <<"a">>), LegacyEntry(<<"a">>, <<"a">>) >>),
      [File(<<>>) EXCEPT !.valid = FALSE] }

\* The scanner does not run.
ScanIdle ==
    /\ ScanInit
    /\ sortConfig.dryRun
    /\ sortConfig.maxForwards = 1
    /\ sortConfig.duplicateDetection = NoChecks

StoreInit ==
    /\ ScanIdle
    /\ StoreEmpty
    /\ DriverIdle
    /\ legacyLogFile \in LegacyLogFiles
    /\ legacyVideoNamesFile \in LegacyNameFiles
    /\ legacyMetadataFile \in LegacyMetadataFiles
    /\ backups = {}
    /\ OracleIdle
    /\ CallIdle
    /\ CleanupIdle

StoreSave ==
    /\ \E fileName \in StoreFileNames, topicName \in Topics, normalizedName \in StoreNames,
          duration \in {0, 5} :
          processedVideos' =
              saveProcessedVideoName(processedVideos, fileName, topicName, duration, 0,
                                     normalizedName, 0, 0, <<>>)
    /\ UNCHANGED <<processedMessages, legacyVars, scanVars, driverVars, forwardingLog,
                   oracle, storeCall, probe, cleanup>>

StoreDelete ==
    /\ \E normalizedNames \in SUBSET {<<"a">>, <<"b">>}, topicName \in Topics :
          processedVideos' = deleteVideosFromTopic(processedVideos, normalizedNames, topicName)
    /\ UNCHANGED <<processedMessages, legacyVars, scanVars, driverVars, forwardingLog,
                   oracle, storeCall, probe, cleanup>>

\* data.split('\n').map(trim).filter(non-empty)
RECURSIVE NonEmptyLines(_)
NonEmptyLines(lines) ==
    IF lines = <<>> THEN <<>>
    ELSE IF Trim(Head(lines)) = <<>> THEN NonEmptyLines(Tail(lines))
    ELSE <<Trim(Head(lines))>> \o NonEmptyLines(Tail(lines))

\* migrateLegacyVideos, lines 155-173: the videos of the legacy files.
LegacyVideos ==
    IF legacyMetadataFile.exists
    THEN IF legacyMetadataFile.valid THEN legacyMetadataFile.lines ELSE <<>>
    ELSE IF legacyVideoNamesFile.exists
    THEN LET names == NonEmptyLines(legacyVideoNamesFile.lines)
         IN  [k \in 1..Len(names) |->
                 [fileName |-> names[k], normalizedName |-> names[k], duration |-> 0,
                  sizeMB |-> 0, width |-> 0, height |-> 0, mimeType |-> <<>>]]
    ELSE <<>>

\* migrateLegacyVideos, lines 176-195: insertMany, every video under "*".
RECURSIVE insertMany(_, _)
insertMany(videos, legacy) ==
    IF legacy = <<>> THEN videos
    ELSE insertMany(InsertOrIgnore(videos, [Head(legacy) EXCEPT !.topicName = Wildcard]),
                    Tail(legacy))

\* loadProcessedVideoNames with migrateLegacyVideos.
loadProcessedVideoNames ==
    /\ IF legacyVideoNamesFile.exists \/ legacyMetadataFile.exists
       THEN /\ processedVideos' =
                   insertMany(processedVideos,
                       [k \in 1..Len(LegacyVideos) |->
                           [fileName |-> LegacyVideos[k].fileName,
                            normalizedName |-> LegacyVideos[k].normalizedName,
                            topicName |-> Wildcard,
                            duration |-> LegacyVideos[k].duration,
                            sizeMB |-> LegacyVideos[k].sizeMB,
                            width |-> LegacyVideos[k].width,
                            height |-> LegacyVideos[k].height,
                            mimeType |-> LegacyVideos[k].mimeType]])
            /\ backups' = backups
                   \cup (IF legacyMetadataFile.exists THEN {"metadata"} ELSE {})
                   \cup (IF legacyVideoNamesFile.exists THEN {"names"} ELSE {})
            /\ legacyMetadataFile' = NoFile
            /\ legacyVideoNamesFile' = NoFile
       ELSE UNCHANGED <<processedVideos, backups, legacyMetadataFile, legacyVideoNamesFile>>
    /\ UNCHANGED <<processedMessages, legacyLogFile, scanVars, driverVars, forwardingLog,
                   oracle, storeCall, probe, cleanup>>

\* loadProcessedMessages with migrateLegacyMessages (lines 118-124 and 134-152).
loadProcessedMessages ==
    /\ IF legacyLogFile.exists
       THEN /\ processedMessages' =
                   processedMessages
                       \cup {legacyLogFile.lines[k] : k \in {n \in 1..Len(legacyLogFile.lines) :
                                                                legacyLogFile.lines[n] # <<>>}}
            /\ backups' = backups \cup {"messages"}
            /\ legacyLogFile' = NoFile
       ELSE UNCHANGED <<processedMessages, backups, legacyLogFile>>
    /\ UNCHANGED <<processedVideos, legacyVideoNamesFile, legacyMetadataFile, scanVars,
                   driverVars, forwardingLog, oracle, storeCall, probe, cleanup>>

StoreNext == StoreSave \/ StoreDelete \/ loadProcessedVideoNames \/ loadProcessedMessages

SpecStore == StoreInit /\ [][StoreNext]_vars

\* C7 (per-topic uniqueness): the Store never holds two rows with the same
\* (normalizedName, topicName).
C7_PerTopicUnique ==
    \A i \in 1..Len(processedVideos), j \in 1..Len(processedVideos) :
        (/\ processedVideos[i].normalizedName = processedVideos[j].normalizedName
         /\ processedVideos[i].topicName = processedVideos[j].topicName) => i = j

\* One normalized name has a row in each of the two topics and a migrated row.
C7_Witness ==
    /\ \A t \in Topics \cup {Wildcard} : RowCount(processedVideos, <<"a">>, t) = 1
    /\ backups # {}

\* The entries of a legacy video file that exists: the entries of the metadata
\* file, the trimmed non-empty lines of the names file.
EntryNames(metadataFile, namesFile) ==
    {metadataFile.lines[k].normalizedName : k \in 1..Len(metadataFile.lines)}
        \cup SeqToSet(NonEmptyLines(namesFile.lines))

\* C27 (legacy migration): a load ingests every non-empty line or entry of
\* each legacy file that exists (messages as keys, videos under "*") and
\* renames each of these files with a .backup suffix; a backup is created only
\* by a load that found its legacy file.
C27_LegacyMigration ==
    [][/\ (legacyLogFile.exists /\ ~legacyLogFile'.exists) =>
              /\ \A k \in 1..Len(legacyLogFile.lines) :
                     legacyLogFile.lines[k] # <<>> =>
                         hasProcessedMessage(processedMessages', legacyLogFile.lines[k])
              /\ "messages" \in backups'
       /\ (<<legacyMetadataFile, legacyVideoNamesFile>>' # <<legacyMetadataFile, legacyVideoNamesFile>>) =>
              /\ \A name \in EntryNames(legacyMetadataFile, legacyVideoNamesFile) :
                     RowCount(processedVideos', name, Wildcard) = 1
              /\ legacyMetadataFile.exists => "metadata" \in backups'
              /\ legacyVideoNamesFile.exists => "names" \in backups'
              /\ ~legacyMetadataFile'.exists /\ ~legacyVideoNamesFile'.exists
       /\ (backups' # backups) =>
              \/ legacyLogFile.exists /\ ~legacyLogFile'.exists
              \/ legacyMetadataFile.exists /\ ~legacyMetadataFile'.exists
              \/ legacyVideoNamesFile.exists /\ ~legacyVideoNamesFile'.exists
       /\ (~legacyLogFile.exists /\ ~legacyMetadataFile.exists /\ ~legacyVideoNamesFile.exists) =>
              UNCHANGED <<legacyVars>>]_vars

(***************************************************************************)
(* The rate-limit driver on its own: handleRateLimit (utils/helpers.ts)    *)
(* under its two callers, MessageForwarder.forwardMessage and              *)
(* VideoProcessor.fetchTopicMessages.                                      *)
(***************************************************************************)
\* Bounds of the driver model: the hint of a flood-wait, in seconds, and the
\* number of messages of the topic that is fetched.
FloodSeconds == 2
TopicLen == 3

\* Constants of the code.
maxRetries == 3
maxBatches == 50

\* The errors an RPC may throw: a flood-wait with its hint, an error of code
\* 420 without a hint, and a network error.
FloodWait == [errorMessage |-> "FLOOD_WAIT", code |-> 420, seconds |-> FloodSeconds]
Code420 == [errorMessage |-> "RATE", code |-> 420, seconds |-> 0]
NetworkError == [errorMessage |-> "ECONNRESET", code |-> 0, seconds |-> 0]
RpcErrors == {FloodWait, Code420, NetworkError}

\* Math.pow(2, n)
RECURSIVE Pow2(_)
Pow2(n) == IF n = 0 THEN 1 ELSE 2 * Pow2(n - 1)

\* handleRateLimit without its sleep: retries at once.
handleRateLimitNoSleep(error, retries) ==
    [slept |-> FALSE, waitTime |-> 0,
     retry |-> (error.errorMessage = "FLOOD_WAIT" \/ error.code = 420) /\ retries < maxRetries]

\* handleRateLimit: whether it slept, for how long (ms), and what it returns.
handleRateLimit(error, retries) ==
    IF error.errorMessage = "FLOOD_WAIT" \/ error.code = 420
    THEN [slept |-> TRUE,
          waitTime |-> IF error.seconds # 0 THEN error.seconds * 1000
                       ELSE Pow2(retries) * 5000,
          retry |-> retries < maxRetries]
    ELSE [slept |-> FALSE, waitTime |-> 0, retry |-> FALSE]

\* The entries of trace.
Call == [op |-> "call", ms |-> 0]
Sleep(ms) == [op |-> "sleep", ms |-> ms]

\* What one failed invocation adds to trace: the call and handleRateLimit's sleep.
FailedCall(error, retries) ==
    <<Call>> \o (IF handleRateLimit(error, retries).slept
                 THEN <<Sleep(handleRateLimit(error, retries).waitTime)>>
                 ELSE <<>>)

DriverInit ==
    /\ ScanIdle
    /\ StoreEmpty
    /\ LegacyIdle
    /\ DriverIdle
    /\ OracleIdle
    /\ CallIdle
    /\ CleanupIdle

notDriverVars == <<storeVars, legacyVars, scanVars, oracle, storeCall, probe, cleanup>>

\* forwardMessage is called: lines 24-25.
ForwardStart ==
    /\ rpc = "idle"
    /\ rpc' = "forward"
    /\ wrapper' = "forwardMessage"
    /\ retryCount' = 0
    /\ success' = FALSE
    /\ UNCHANGED <<calls, trace, errors, batchCount, topicOffsetId, topicHasMore,
                   fetchedMessages, result, notDriverVars, forwardingLog>>

\* forwardMessage, lines 27-57: the forward RPC goes through.
ForwardCallSucceeds ==
    /\ rpc = "forward"
    /\ ~success /\ retryCount <= 3
    /\ calls' = calls + 1
    /\ trace' = Append(trace, Call)
    /\ forwardingLog' = logForwardedVideo(forwardingLog,
           [fileName |-> <<"k">>, matchedKeyword |-> <<"k">>, topicName |-> <<"k">>,
            sourceGroup |-> 1, duration |-> 5, sizeMB |-> 10])
    /\ success' = TRUE
    /\ UNCHANGED <<rpc, wrapper, retryCount, errors, batchCount, topicOffsetId,
                   topicHasMore, fetchedMessages, result, notDriverVars>>

\* forwardMessage, lines 58-66: the forward RPC throws.
ForwardCallFails(error) ==
    /\ rpc = "forward"
    /\ ~success /\ retryCount <= 3
    /\ calls' = calls + 1
    /\ errors' = Append(errors, error)
    /\ trace' = trace \o FailedCall(error, retryCount)
    /\ IF handleRateLimit(error, retryCount).retry
       THEN /\ retryCount' = retryCount + 1
            /\ UNCHANGED <<rpc, result>>
       ELSE /\ rpc' = "returned"
            /\ result' = success
            /\ UNCHANGED retryCount
    /\ UNCHANGED <<wrapper, success, batchCount, topicOffsetId, topicHasMore,
                   fetchedMessages, notDriverVars, forwardingLog>>

\* forwardMessage, lines 27 and 69: the loop is over, success is returned.
ForwardReturns ==
    /\ rpc = "forward"
    /\ ~(~success /\ retryCount <= 3)
    /\ rpc' = "returned"
    /\ result' = success
    /\ UNCHANGED <<wrapper, retryCount, success, calls, trace, errors, batchCount,
                   topicOffsetId, topicHasMore, fetchedMessages, notDriverVars, forwardingLog>>

\* channels.GetReplies: the page of the topic after offset, newest first.
TopicPage(offset) == Descending(IF offset = 0 THEN TopicLen ELSE offset - 1, PageLimit)

\* fetchTopicMessages is called: lines 186-190.
FetchStart ==
    /\ rpc = "idle"
    /\ rpc' = "fetch"
    /\ wrapper' = "fetchTopicMessages"
    /\ fetchedMessages' = {}
    /\ topicOffsetId' = 0
    /\ topicHasMore' = TRUE
    /\ batchCount' = 0
    /\ UNCHANGED <<retryCount, success, calls, trace, errors, result, notDriverVars,
                   forwardingLog>>

\* fetchTopicMessages, lines 192-195 and 254-255: the head of the outer loop.
FetchBatch ==
    /\ rpc = "fetch"
    /\ IF topicHasMore /\ batchCount < maxBatches
       THEN /\ batchCount' = batchCount + 1
            /\ retryCount' = 0
            /\ success' = FALSE
            /\ trace' = <<>>
            /\ errors' = <<>>
            /\ rpc' = "fetchCall"
       ELSE /\ rpc' = "returned"
            /\ UNCHANGED <<batchCount, retryCount, success, trace, errors>>
    /\ UNCHANGED <<wrapper, calls, topicOffsetId, topicHasMore, fetchedMessages, result,
                   notDriverVars, forwardingLog>>

\* fetchTopicMessages, lines 197-232: GetReplies answers.
FetchCallSucceeds ==
    /\ rpc = "fetchCall"
    /\ ~success /\ retryCount < 3
    /\ trace' = Append(trace, Call)
    /\ LET messages == TopicPage(topicOffsetId)
       IN  IF messages = <<>>
           THEN /\ topicHasMore' = FALSE
                /\ rpc' = "fetch"
                /\ calls' = calls + 1
                /\ UNCHANGED <<fetchedMessages, topicOffsetId, success>>
           ELSE /\ fetchedMessages' = fetchedMessages \cup SeqToSet(messages)
                /\ topicOffsetId' = messages[Len(messages)]
                /\ calls' = 0
                /\ success' = TRUE
                /\ UNCHANGED <<topicHasMore, rpc>>
    /\ UNCHANGED <<wrapper, retryCount, errors, batchCount, result, notDriverVars,
                   forwardingLog>>

\* fetchTopicMessages, lines 233-243: GetReplies throws.
FetchCallFails(error) ==
    /\ rpc = "fetchCall"
    /\ ~success /\ retryCount < 3
    /\ calls' = calls + 1
    /\ errors' = Append(errors, error)
    /\ trace' = trace \o FailedCall(error, retryCount)
    /\ IF handleRateLimit(error, retryCount).retry
       THEN /\ retryCount' = retryCount + 1
            /\ UNCHANGED <<rpc, topicHasMore>>
       ELSE /\ topicHasMore' = FALSE
            /\ rpc' = "fetch"
            /\ UNCHANGED retryCount
    /\ UNCHANGED <<wrapper, success, batchCount, topicOffsetId, fetchedMessages, result,
                   notDriverVars, forwardingLog>>

\* fetchTopicMessages, lines 197 and 246-250: the inner loop is over.
FetchBatchDone ==
    /\ rpc = "fetchCall"
    /\ ~(~success /\ retryCount < 3)
    /\ rpc' = "fetch"
    /\ UNCHANGED <<wrapper, retryCount, success, calls, trace, errors, batchCount,
                   topicOffsetId, topicHasMore, fetchedMessages, result, notDriverVars,
                   forwardingLog>>

\* The call sites that invoke an RPC with no retry loop around it: GetHistory
\* in processSource (lines 285-295) and in cleanupForumGroup (lines 198-208),
\* DeleteMessages in findAndDeleteDuplicatesInTopic (lines 153-158), in
\* deleteExcludedVideo (lines 279-284) and in cleanDuplicatesPerTopic (325-330).
ThrowingSites == {"processSource", "findAndDeleteDuplicatesInTopic"}
CatchingSites == {"cleanupForumGroup", "deleteExcludedVideo", "cleanDuplicatesPerTopic"}
DirectSites == ThrowingSites \cup CatchingSites

\* One of these call sites is reached.
DirectStart(site) ==
    /\ rpc = "idle"
    /\ rpc' = "direct"
    /\ wrapper' = site
    /\ UNCHANGED <<retryCount, success, calls, trace, errors, batchCount, topicOffsetId,
                   topicHasMore, fetchedMessages, result, notDriverVars, forwardingLog>>

\* The RPC of the call site answers.
DirectCallSucceeds ==
    /\ rpc = "direct"
    /\ calls' = calls + 1
    /\ trace' = Append(trace, Call)
    /\ success' = TRUE
    /\ result' = TRUE
    /\ rpc' = "returned"
    /\ UNCHANGED <<wrapper, retryCount, errors, batchCount, topicOffsetId, topicHasMore,
                   fetchedMessages, notDriverVars, forwardingLog>>

\* The RPC of the call site throws.  processSource has no handler, and
\* findAndDeleteDuplicatesInTopic logs and rethrows (lines 169-170): the error
\* reaches the caller.  The sweeper's handlers log the error and go on
\* (forum-cleaner.ts, lines 267-269, 286-289, 332-334).
DirectCallFails(error) ==
    /\ rpc = "direct"
    /\ calls' = calls + 1
    /\ trace' = Append(trace, Call)
    /\ errors' = Append(errors, error)
    /\ result' = FALSE
    /\ rpc' = IF wrapper \in ThrowingSites THEN "thrown" ELSE "returned"
    /\ UNCHANGED <<wrapper, retryCount, success, batchCount, topicOffsetId, topicHasMore,
                   fetchedMessages, notDriverVars, forwardingLog>>

DriverNext ==
    \/ \E site \in DirectSites : DirectStart(site)
    \/ DirectCallSucceeds
    \/ \E error \in RpcErrors : DirectCallFails(error)
    \/ ForwardStart
    \/ ForwardCallSucceeds
    \/ \E error \in RpcErrors : ForwardCallFails(error)
    \/ ForwardReturns
    \/ FetchStart
    \/ FetchBatch
    \/ FetchCallSucceeds
    \/ \E error \in RpcErrors : FetchCallFails(error)
    \/ FetchBatchDone

SpecDriver == DriverInit /\ [][DriverNext]_vars

\* C8 (bounded retries): the RPC of one wrapped call (the forward of one
\* forwardMessage call, the page fetch at one offset) is invoked at most 4 times.
C8_BoundedRetries == calls <= 4

\* fetchTopicMessages makes at most maxBatches passes of its outer loop (line
\* 192), whatever GetReplies answers.
FetchBounded == batchCount <= maxBatches

\* forwardMessage has returned.
ForwardReturned == rpc = "returned" /\ wrapper = "forwardMessage"

\* The sleeps of trace, in order.
Sleeps == Filter(trace, [k \in 1..Len(trace) |-> trace[k].op = "sleep"])

\* C9 (flood-wait retry): a forwardMessage call whose only error was a
\* flood-wait with a hint of s seconds made two RPC calls with one sleep of at
\* least s * 1000 ms between them, returned true and wrote one audit entry.
C9_FloodWaitRetry ==
    (/\ ForwardReturned
     /\ Len(errors) = 1
     /\ errors[1].errorMessage = "FLOOD_WAIT"
     /\ errors[1].seconds > 0) =>
        /\ result
        /\ calls = 2
        /\ Len(trace) = 3
        /\ trace[1] = Call
        /\ trace[2].op = "sleep" /\ trace[2].ms >= errors[1].seconds * 1000
        /\ trace[3] = Call
        /\ Len(forwardingLog) = 1

\* The forwarder met one flood-wait with a hint and has returned true.
C9_Witness ==
    /\ ForwardReturned
    /\ errors = <<FloodWait>>
    /\ result

\* An error of code 420 without a hint, or a network error.
IsTransient(error) ==
    \/ (error.code = 420 /\ error.seconds = 0)
    \/ (error.code # 420 /\ error.errorMessage # "FLOOD_WAIT")

\* The exponential sleeps of the retries, in ms.
Backoff == <<5000, 10000, 20000>>

\* C10 (transient errors): a forwardMessage call that met only transient
\* errors slept 5 s, 10 s, 20 s, one sleep before each retry, and nothing
\* else; when the error was surfaced, the three retries had been made.
C10_TransientBackoff ==
    (/\ ForwardReturned
     /\ errors # <<>>
     /\ \A k \in 1..Len(errors) : IsTransient(errors[k])) =>
        /\ calls <= 4
        /\ Sleeps = [k \in 1..(calls - 1) |-> Sleep(Backoff[k])]
        /\ (~result => calls = 4)

\* The RPC call site has finished, by a return or by a throw.
CallSiteDone == rpc \in {"returned", "thrown"}

\* C11 (every RPC goes through the driver): whichever call site issued the
\* RPC (history page, replies page, forward, delete), when its first error
\* was a flood-wait the call site slept and invoked the RPC again before it
\* finished, and it did not throw that first error to its caller.
C11_AllThroughDriver ==
    (/\ CallSiteDone
     /\ errors # <<>>
     /\ errors[1] = FloodWait) =>
        /\ Len(trace) >= 3
        /\ trace[1] = Call
        /\ trace[2].op = "sleep"
        /\ trace[3] = Call
        /\ ~(rpc = "thrown" /\ Len(errors) = 1)

(***************************************************************************)
(* Replacement of duplicates by the scanner: runs that start with a Store  *)
(* and a destination that are not empty.                                   *)
(***************************************************************************)
\* The row saveProcessedVideoName writes for a document forwarded to a topic.
RowOf(doc, topic) ==
    saveProcessedVideoName(<<>>, getFileName(doc), topic, getVideoDuration(doc),
        getFileSizeMB(doc), normalizeFileName(getFileName(doc)), 0, 0, <<>>)[1]

\* The message a forward of a document to a topic left in the destination.
CopyOf(id, doc, topic) == [id |-> id, topic |-> topic, doc |-> doc]

DestinationIds == {m.id : m \in destination}

\* What earlier runs (and the owner of the chat, who may remove a message by
\* hand) left behind: a video of topic k with its row and its copy; a row of
\* topic k without a copy, for a video of topics k and q; that row with its
\* copy, next to a video that has been excluded since and two copies of one
\* video; a video registered in both topics and published in k only (its
\* forward to q had failed, and when a later message of the same name was
\* pre-registered, DeleteMessages threw on the copy in k: the rows stayed).
\* The media message of the last source was processed by an earlier run; those
\* of the first source are new.
Worlds ==
    LET k1 == Video(<<"K","1",".","m","p","4">>, 5, 10)
        kq == Video(<<"k","q",".","m","p","4">>, 9, 20)
        kz == Video(<<"k","z",".","m","p","4">>, 5, 10)
    IN  { [videos |-> <<RowOf(k1, <<"k">>)>>, messages |-> {CopyOf(1, k1, <<"k">>)}],
          [videos |-> <<RowOf(kq, <<"k">>)>>, messages |-> {}],
          [videos |-> <<RowOf(kq, <<"k">>)>>,
           messages |-> {CopyOf(1, kq, <<"k">>), CopyOf(2, kz, <<"k">>),
                         CopyOf(3, k1, <<"k">>), CopyOf(4, k1, <<"k">>)}],
          [videos |-> <<RowOf(kq, <<"k">>), RowOf(kq, <<"q">>)>>,
           messages |-> {CopyOf(1, kq, <<"k">>)}] }

\* shouldExcludeVideo (utils/video-matching.ts, lines 59-73).
shouldExcludeVideo(messageText, fileName, excluded) ==
    LET combinedText == ToLower(messageText) \o <<" ">> \o ToLower(fileName)
    IN  \E k \in 1..Len(excluded) : Includes(combinedText, ToLower(excluded[k]))

\* deleteExcludedVideo with the dry-run test left out.
deleteExcludedVideoWet(dryRun, ok) ==
    [invoked |-> TRUE, removed |-> IF ok THEN 1 ELSE 0]

\* deleteExcludedVideo (forum-cleaner.ts, lines 274-294): whether DeleteMessages
\* is invoked, and the number it returns; ok: the RPC goes through.
deleteExcludedVideo(dryRun, ok) ==
    IF ~dryRun THEN [invoked |-> TRUE, removed |-> IF ok THEN 1 ELSE 0]
    ELSE [invoked |-> FALSE, removed |-> 1]

\* messages.GetHistory on the forum group: the messages below offset, newest
\* first (the group is smaller than the limit of 100).
RECURSIVE NewestFirst(_)
NewestFirst(group) ==
    IF group = {} THEN <<>>
    ELSE LET newest == CHOOSE m \in group : \A o \in group : o.id <= m.id
         IN  <<newest>> \o NewestFirst(group \ {newest})

GroupPage(group, offset) == NewestFirst({m \in group : offset = 0 \/ m.id < offset})

\* A sweeper that keeps one video per file name, whatever the topic.
SameName(a, b) == a.name = b.name

\* The key of videosByTopic: the topic, then the lower-cased file name.
SameKey(a, b) == a.topic = b.topic /\ a.name = b.name

\* A sweeper that removes one duplicate of each file name per call: the second id.
allToDeleteOne(tracked) ==
    {tracked[k].id : k \in {n \in 1..Len(tracked) :
        Cardinality({j \in 1..(n - 1) : /\ tracked[j].topic = tracked[n].topic
                                        /\ tracked[j].name = tracked[n].name}) = 1}}

\* cleanDuplicatesPerTopic, lines 302-313: allToDelete, every id but the first
\* of each file name of each topic.
allToDelete(tracked) ==
    {tracked[k].id : k \in {n \in 1..Len(tracked) :
        \E j \in 1..(n - 1) : SameKey(tracked[j], tracked[n])}}

\* The place of the n-th recorded message in the iteration over the Map of
\* topics and, within a topic, over the Map of file names: the first message
\* of its topic and the first of its file name in that topic.
TopicRank(tracked, n) ==
    CHOOSE j \in 1..n : /\ tracked[j].topic = tracked[n].topic
                        /\ \A i \in 1..(j - 1) : tracked[i].topic # tracked[n].topic

NameRank(tracked, n) ==
    CHOOSE j \in 1..n : /\ SameKey(tracked[j], tracked[n])
                        /\ \A i \in 1..(j - 1) : ~SameKey(tracked[i], tracked[n])

ComesBefore(tracked, a, b) ==
    \/ TopicRank(tracked, a) < TopicRank(tracked, b)
    \/ /\ TopicRank(tracked, a) = TopicRank(tracked, b)
       /\ \/ NameRank(tracked, a) < NameRank(tracked, b)
          \/ NameRank(tracked, a) = NameRank(tracked, b) /\ a < b

RECURSIVE InMapOrder(_, _)
InMapOrder(tracked, positions) ==
    IF positions = {} THEN <<>>
    ELSE <<tracked[CHOOSE a \in positions :
                       \A b \in positions \ {a} : ComesBefore(tracked, a, b)].id>>
         \o InMapOrder(tracked, positions \ {CHOOSE a \in positions :
                       \A b \in positions \ {a} : ComesBefore(tracked, a, b)})

\* cleanDuplicatesPerTopic, lines 302-313: allToDelete as the array it is.
allToDeleteList(tracked) ==
    InMapOrder(tracked, {n \in 1..Len(tracked) : tracked[n].id \in allToDelete(tracked)})

\* cleanDuplicatesPerTopic, line 323: allToDelete.slice(i, i + batchSize).
deleteBatch(ids) == SubSeq(ids, 1, Min(BatchSize, Len(ids)))

\* The parameter skipCleanup of cleanupForumGroup as run passes it (part_005,
\* line 68: cleanupForumGroup(forumGroupId, exclusions)): the default, false.
skipCleanup(config) == FALSE

\* What the sweeper leaves alone.
notSweepVars ==
    <<sortConfig, storeVars, destSeq, topicMessageCache, run, srcIdx, totalProcessed,
      totalForwarded, forwardStats, localVars, observed, decided, redecided,
      forwardedKeys, legacyVars, driverVars, forwardingLog, oracle, storeCall, probe,
      cleanup>>

\* cleanupForumGroup returns: run goes on with processVideos (part_005, line 71).
SweepReturns ==
    /\ pc' = "runner"
    /\ sweepBatch' = <<>>
    /\ videosByTopic' = <<>>

\* cleanupForumGroup, lines 198-208 and 267-271: GetHistory throws; the error
\* is logged and the cleanup is over.
SweepHistoryThrows ==
    /\ pc = "cleanup"
    /\ ~skipCleanup(sortConfig)
    /\ SweepReturns
    /\ sweepLog' = [sweepLog EXCEPT !.fetched = TRUE, !.failed = TRUE]
    /\ UNCHANGED <<destination, issued, sweepOffsetId, totalExcluded, totalDuplicates,
                   notSweepVars>>

\* cleanupForumGroup, lines 181-184: with skipCleanup it returns at once.
\* Lines 198-219 and 262-271: GetHistory answers.  After the last page
\* cleanDuplicatesPerTopic runs (lines 296-319 and 340-344): in a dry run, or
\* with nothing to delete, it returns at once.
SweepHistoryReturns ==
    /\ pc = "cleanup"
    /\ LET messages == GroupPage(destination, sweepOffsetId)
           toDelete == allToDelete(videosByTopic)
       IN  IF skipCleanup(sortConfig)
           THEN /\ SweepReturns
                /\ UNCHANGED <<totalDuplicates, sweepLog>>
           ELSE IF messages # <<>>
           THEN /\ sweepLog' = [sweepLog EXCEPT !.fetched = TRUE]
                /\ sweepBatch' = messages
                /\ pc' = "sweep"
                /\ UNCHANGED <<videosByTopic, totalDuplicates>>
           ELSE /\ sweepLog' = [sweepLog EXCEPT !.fetched = TRUE, !.paged = TRUE,
                                                !.tracked = videosByTopic, !.queued = toDelete]
                /\ IF toDelete = {} \/ sortConfig.dryRun
                   THEN /\ totalDuplicates' = Cardinality(toDelete)
                        /\ SweepReturns
                   ELSE /\ pc' = "purge"
                        /\ sweepBatch' = allToDeleteList(videosByTopic)
                        /\ UNCHANGED <<videosByTopic, totalDuplicates>>
    /\ UNCHANGED <<destination, issued, sweepOffsetId, totalExcluded, notSweepVars>>

\* cleanupForumGroup, lines 221-258: the next message of the page; after the
\* last one the cursor advances.  ok: DeleteMessages, if invoked, goes through.
SweepMessage(ok) ==
    /\ pc = "sweep"
    /\ sweepBatch # <<>>
    /\ LET message == Head(sweepBatch)
           fileName == getFileName(message.doc)
           deletion == deleteExcludedVideo(sortConfig.dryRun, ok)
       IN  IF ~message.doc.media \/ fileName = <<>>
           THEN /\ ok
                /\ UNCHANGED <<destination, issued, totalExcluded, videosByTopic, sweepLog>>
           ELSE IF shouldExcludeVideo(message.doc.message, fileName, exclusions)
           THEN /\ (~deletion.invoked => ok)
                /\ issued' = IF deletion.invoked THEN issued \cup {"DeleteMessages"} ELSE issued
                /\ destination' = IF deletion.invoked /\ ok THEN destination \ {message}
                                  ELSE destination
                /\ totalExcluded' = totalExcluded + deletion.removed
                /\ sweepLog' =
                       [sweepLog EXCEPT
                           !.failed = @ \/ (deletion.invoked /\ ~ok),
                           !.deleted = IF deletion.invoked /\ ok THEN @ \cup {message.id} ELSE @,
                           !.excluded = @ \cup {message.id},
                           !.rpcs = IF deletion.invoked THEN Append(@, <<message.id>>) ELSE @]
                /\ UNCHANGED videosByTopic
           ELSE /\ ok
                /\ videosByTopic' = Append(videosByTopic,
                       [topic |-> message.topic, name |-> ToLower(fileName), id |-> message.id])
                /\ UNCHANGED <<destination, issued, totalExcluded, sweepLog>>
    /\ sweepBatch' = Tail(sweepBatch)
    /\ IF Len(sweepBatch) = 1
       THEN /\ sweepOffsetId' = Head(sweepBatch).id
            /\ pc' = "cleanup"
       ELSE UNCHANGED <<sweepOffsetId, pc>>
    /\ UNCHANGED <<totalDuplicates, notSweepVars>>

\* cleanDuplicatesPerTopic, lines 319-344: the next batch of duplicates is
\* deleted; an error is logged and the loop goes on; after the last batch the
\* count is returned, whatever happened.
SweepPurge(ok) ==
    /\ pc = "purge"
    /\ sweepBatch # <<>>
    /\ issued' = issued \cup {"DeleteMessages"}
    /\ destination' = IF ok THEN {m \in destination : m.id \notin SeqToSet(deleteBatch(sweepBatch))}
                      ELSE destination
    /\ sweepLog' =
           [sweepLog EXCEPT
               !.failed = @ \/ ~ok,
               !.deleted = IF ok THEN @ \cup SeqToSet(deleteBatch(sweepBatch)) ELSE @,
               !.rpcs = Append(@, deleteBatch(sweepBatch))]
    /\ IF Len(sweepBatch) <= BatchSize
       THEN /\ totalDuplicates' = Cardinality(allToDelete(videosByTopic))
            /\ SweepReturns
       ELSE /\ sweepBatch' = SubSeq(sweepBatch, BatchSize + 1, Len(sweepBatch))
            /\ UNCHANGED <<pc, videosByTopic, totalDuplicates>>
    /\ UNCHANGED <<sweepOffsetId, totalExcluded, notSweepVars>>

\* One run of the program (TelegramVideoSorter.run): the sweeper, then the
\* scanner over the sources.
RunInit ==
    /\ ScanStart
    /\ pc = "cleanup"
    /\ sortConfig.maxForwards = MaxForwardsCap
    /\ processedMessages = {MessageKey(NumSources, SourceLen(NumSources))}
    /\ \E w \in Worlds :
           /\ processedVideos = w.videos
           /\ destination = w.messages
           /\ destSeq = Cardinality(w.messages) + 1
    /\ LegacyIdle
    /\ DriverIdle
    /\ OracleIdle
    /\ CallIdle
    /\ CleanupIdle

RunNext ==
    \/ SweepHistoryThrows
    \/ SweepHistoryReturns
    \/ \E ok \in BOOLEAN : SweepMessage(ok)
    \/ \E ok \in BOOLEAN : SweepPurge(ok)
    \/ RunnerNext
    \/ GetHistoryThrows
    \/ GetHistoryReturns
    \/ EndOfBatch
    \/ SkipProcessed
    \/ Commit
    \/ Decide
    \/ \E fetched \in BOOLEAN, deleted \in BOOLEAN : DedupTopic(fetched, deleted)
    \/ StartForward
    \/ \E k \in 1..2, ok \in BOOLEAN : ForwardSettles(k, ok)
    \/ JoinForwards

SpecRun == RunInit /\ [][RunNext]_vars

\* The copies of the message in hand that topic t of a destination holds.
CopiesIn(dest, t) == {m \in dest : m.topic = t /\ NameOf(m) = CurName}

\* The message at the Predicate matches, is under the cap and within the
\* constraints: the partition of lines 351-371 is computed for it.
AtPartition ==
    /\ pc = "decide"
    /\ matchesVideo(cur, matches, exclusions, sortConfig.minVideoDurationInSeconds) # <<>>
    /\ forwarded < sortConfig.maxForwards
    /\ validateVideoConstraints(extractVideoMetadata(cur))

\* The matched topics in which the Oracle finds a duplicate of the message in
\* hand, as the partition sees them.
DuplicateTopics ==
    IF pc # "decide" THEN replacing.topics
    ELSE IF AtPartition
    THEN SeqToSet(existingTopics(processedVideos, extractVideoMetadata(cur),
             matchesVideo(cur, matches, exclusions, sortConfig.minVideoDurationInSeconds)))
    ELSE {}

\* The id the destination gave its next message when the partition was made.
FirstNewId == IF pc = "decide" THEN destSeq ELSE replacing.from

\* C12 (automatic replacement): outside a dry run, when the handling of a
\* message ends and the scanner moves on to the next message, every matched
\* topic in which the Oracle had found a duplicate of it holds exactly one copy
\* of it, and that copy was forwarded during this handling.
C12_Replacement ==
    [][(InHand /\ pc' = "message" /\ ~sortConfig.dryRun) =>
          \A t \in DuplicateTopics :
              \E m \in destination' :
                  /\ CopiesIn(destination', t) = {m}
                  /\ m.id >= FirstNewId]_vars

\* Topic t has a row the Oracle finds for the message in hand, but no copy of
\* it: the video is registered in t and not published there.
Unpublished(t) == t \in DuplicateTopics /\ CopiesIn(destination, t) = {}

\* C34 (recovery of a registered-but-unpublished video): outside a dry run, a
\* candidate at the partition that matches a topic in which its video is
\* registered but not published is not skipped: it goes on to the duplicate
\* handling with that topic among the topics to be handled, which leads to
\* the forward into the topic.
C34_Recovery ==
    [][(AtPartition /\ ~sortConfig.dryRun /\ \E t \in Topics : Unpublished(t)) =>
          /\ pc' = "dedup"
          /\ \A t \in Topics : Unpublished(t) => t \in SeqToSet(remaining')]_vars

\* findAndDeleteDuplicatesInTopic is about to look the messages of topic t up
\* (lines 65-75): the duplicate handling is at t and the Oracle finds a row.
Lookup(t) ==
    /\ pc = "dedup"
    /\ remaining # <<>>
    /\ Head(remaining) = t
    /\ SimilarInTopic(processedVideos, extractVideoMetadata(cur), t) # <<>>

C38_CacheCoherence ==
    [][\A t \in Topics :
          (topicMessageCache[t].cached /\ run' = run) =>
              /\ topicMessageCache'[t].messages \cap (destination \ destination') = {}
              /\ \A m \in destination' \ destination :
                     m.topic = t => m \in topicMessageCache'[t].messages]_vars

\* The step in which DeleteMessages threw (lines 149-171): outside a dry run
\* the Oracle found a row in the topic at the head of remaining, and the step
\* removed neither a destination message nor a row.
DeleteFailed ==
    /\ pc = "dedup"
    /\ remaining # <<>>
    /\ ~sortConfig.dryRun
    /\ SimilarInTopic(processedVideos, extractVideoMetadata(cur), Head(remaining)) # <<>>
    /\ destination' = destination
    /\ processedVideos' = processedVideos

\* C13 (delete failure during replacement): when DeleteMessages fails, the
\* scanner keeps the message in hand, puts the topic among the topics to
\* forward to, and keeps the rest of the page to be processed.
C13_DeleteFailureTolerated ==
    [][DeleteFailed =>
          /\ pc' = "dedup"
          /\ cur' = cur
          /\ \E k \in 1..Len(topicsToForward') : topicsToForward'[k] = Head(remaining)
          /\ batch' = batch]_vars

\* C14 (a dry run issues no destructive RPC): with dryRun set, neither the
\* sweeper nor the scanner has invoked a forward or a delete RPC.
C14_DryRunNoDestructiveRpc == sortConfig.dryRun => issued = {}

\* A dry run in which the sweeper met an excluded video and a duplicate, and
\* the scanner has counted a forward and now counts a delete.
C14_Witness ==
    /\ sortConfig.dryRun
    /\ totalExcluded > 0
    /\ totalDuplicates > 0
    /\ \E t \in Topics : forwardStats[t] > 0
    /\ pc = "dedup"
    /\ deletedCount > 0

\* C15 (a dry run leaves the video table unchanged): with dryRun set, no step
\* of the run inserts or deletes a processed-video row, and the key of every
\* message that reaches the Predicate is in the processed-message table.
C15_DryRunVideoTableFrame ==
    [][sortConfig.dryRun =>
          /\ processedVideos' = processedVideos
          /\ (pc' = "decide" =>
                 hasProcessedMessage(processedMessages', MessageKey(srcIdx', cur'.id)))]_vars

(***************************************************************************)
(* The Oracle on its own: findAllSimilarVideosInTopic and                  *)
(* findSimilarVideoInTopic (services/storage.ts) over a Store of a few     *)
(* rows, asked about one candidate under a growing set of enabled checks.  *)
(***************************************************************************)
\* Bound of the Oracle model: the number of rows saved to the Store.
MaxRows == 2

\* The names of the Oracle model: the candidate's, one that is 87.5% similar
\* to it, and one that is not similar.
LongName == <<"a","b","c","d","e","f","g","h">>
NearName == <<"a","b","c","d","e","f","g">>
OtherName == <<"x","y">>

\* The rows that are saved: under topic k, topic q or the legacy "*"; without
\* metadata, with a duration 10 s away from the candidate's, or 90 s away.
\* The empty name is that of a video without a file name attribute.
OracleRows ==
    [normalizedName : {LongName, NearName, OtherName, <<>>},
     topicName : Topics \cup {Wildcard},
     meta : {[duration |-> 0, sizeMB |-> 0], [duration |-> 100, sizeMB |-> 50],
             [duration |-> 200, sizeMB |-> 50]}]

\* The sets of enabled checks, with the default tolerances (30 s, 5 %).
OracleOptions ==
    {[NoChecks EXCEPT !.checkDuration = d, !.checkFileSize = f] : d \in BOOLEAN, f \in BOOLEAN}

\* The queries: a candidate with or without a duration and a size, a topic
\* and a set of enabled checks.
Queries ==
    {[NoQuery EXCEPT !.fileName = n, !.normalizedName = n, !.topicName = t,
                     !.duration = d, !.sizeMB = z, !.options = o] :
        n \in {LongName, OtherName, <<>>}, t \in Topics, d \in {0, 110}, z \in {0, 50},
        o \in OracleOptions}

\* The rows the Oracle returns to the query q under the options o.
Ask(videos, q, o) ==
    findAllSimilarVideosInTopic(videos, q.fileName, q.normalizedName, q.topicName,
                                q.duration, q.sizeMB, o, 0, 0, <<>>)

\* The row findSimilarVideoInTopic returns to the query q under the options o.
AskFirst(videos, q, o) ==
    findSimilarVideoInTopic(videos, q.fileName, q.normalizedName, q.topicName,
                            q.duration, q.sizeMB, o, 0, 0, <<>>)

notOracleVars ==
    <<processedMessages, legacyVars, scanVars, driverVars, forwardingLog, storeCall, probe,
      cleanup>>

OracleInit ==
    /\ ScanIdle
    /\ StoreEmpty
    /\ LegacyIdle
    /\ DriverIdle
    /\ oracle \in Queries
    /\ CallIdle
    /\ CleanupIdle

\* saveProcessedVideoName before the Oracle is asked.
OracleSave ==
    /\ ~oracle.asked
    /\ Len(processedVideos) < MaxRows
    /\ \E row \in OracleRows :
          processedVideos' =
              saveProcessedVideoName(processedVideos, row.normalizedName, row.topicName,
                  row.meta.duration, row.meta.sizeMB, row.normalizedName, 0, 0, <<>>)
    /\ UNCHANGED <<oracle, notOracleVars>>

\* findAllSimilarVideosInTopic is called.
OracleAsk ==
    /\ ~oracle.asked
    /\ oracle' = [oracle EXCEPT !.asked = TRUE,
                                !.rows = Ask(processedVideos, oracle, oracle.options)]
    /\ UNCHANGED <<processedVideos, notOracleVars>>

\* More checks are enabled in duplicateDetection and the Oracle is asked again
\* about the same candidate, topic and Store.
OracleEnable(d, f) ==
    /\ oracle.asked /\ ~oracle.reasked
    /\ LET more == [oracle.options EXCEPT !.checkDuration = @ \/ d, !.checkFileSize = @ \/ f]
       IN  /\ more # oracle.options
           /\ oracle' = [oracle EXCEPT !.options = more, !.reasked = TRUE,
                                       !.before = oracle.rows,
                                       !.rows = Ask(processedVideos, oracle, more)]
    /\ UNCHANGED <<processedVideos, notOracleVars>>

OracleNext ==
    \/ OracleSave
    \/ OracleAsk
    \/ \E d \in BOOLEAN, f \in BOOLEAN : OracleEnable(d, f)

SpecOracle == OracleInit /\ [][OracleNext]_vars

\* The candidate carries the data of a check that options enables: the guard
\* of the near-name and fallback paths.
CandidateHasData(options) ==
    HasCheckableData(oracle.duration, oracle.sizeMB, options, 0, 0, <<>>)

RowsOfTopic(videos, topicName) ==
    Filter(videos, [k \in 1..Len(videos) |-> videos[k].topicName \in {topicName, Wildcard}])

\* C17 (topic isolation): every row the Oracle returns for topic t is stored
\* under t or under "*"; the rows stored under other topics do not change
\* what it returns; and when it returns a "*" row, the candidate is a
\* duplicate in every topic.
C17_TopicIsolation ==
    oracle.asked =>
        /\ \A k \in 1..Len(oracle.rows) :
               oracle.rows[k].topicName \in {oracle.topicName, Wildcard}
        /\ AskFirst(processedVideos, oracle, oracle.options) =
               (IF oracle.rows = <<>> THEN <<>> ELSE <<oracle.rows[1]>>)
        /\ oracle.rows =
               Ask(RowsOfTopic(processedVideos, oracle.topicName), oracle, oracle.options)
        /\ (\E k \in 1..Len(oracle.rows) : oracle.rows[k].topicName = Wildcard) =>
               \A t \in Topics :
                   AskFirst(processedVideos, [oracle EXCEPT !.topicName = t], oracle.options) # <<>>

\* The Store holds a row with the candidate's name under another topic and a
\* legacy row; the Oracle was asked and returned the legacy row only.
C17_Witness ==
    /\ oracle.asked
    /\ \E k \in 1..Len(processedVideos) :
          /\ processedVideos[k].normalizedName = oracle.normalizedName
          /\ processedVideos[k].topicName \notin {oracle.topicName, Wildcard}
    /\ Len(oracle.rows) = 1
    /\ oracle.rows[1].topicName = Wildcard

\* The row is stored under the asked topic (or "*") and its name is the
\* candidate's or at least 85% similar to it.
NameMatches(row) ==
    /\ InTopic(row, oracle.topicName)
    /\ \/ row.normalizedName = oracle.normalizedName
       \/ SimilarEnough(oracle.normalizedName, row.normalizedName)

\* The row is stored under the asked topic (or "*") and every enabled check
\* has the data on both sides and passes.
MetadataMatches(row) ==
    /\ InTopic(row, oracle.topicName)
    /\ StrictChecks(row, oracle.duration, oracle.sizeMB, oracle.options, 0, 0, <<>>)

C29_EveryEnabledCheckPasses ==
    (oracle.asked /\ AnyCheck(oracle.options)) =>
        \A r \in 1..Len(oracle.rows) :
            StrictChecks(oracle.rows[r], oracle.duration, oracle.sizeMB, oracle.options,
                         0, 0, <<>>)

\* The tolerances a configuration file may give: below, at and above the
\* distance of the candidate to the rows, and 0.
DurationTolerances == {0, 5, 10, 90}
SizeTolerances == {0, 3, 4}

\* duplicateDetection with one check enabled and the value its tolerance key
\* has in the configuration file (0 also when the key is absent), paired with
\* the set of tolerance keys the file has.
ToleranceConfigs ==
    {[options |-> [NoChecks EXCEPT !.checkDuration = TRUE, !.durationToleranceSeconds = v],
      configured |-> c] :
        v \in DurationTolerances, c \in {{}, {"durationToleranceSeconds"}}}
    \cup
    {[options |-> [NoChecks EXCEPT !.checkFileSize = TRUE, !.fileSizeTolerancePercent = v],
      configured |-> c] :
        v \in SizeTolerances, c \in {{}, {"fileSizeTolerancePercent"}}}

\* A key that is absent from the file has no value.
ToleranceQueries ==
    {[NoQuery EXCEPT !.fileName = LongName, !.normalizedName = LongName,
                     !.topicName = <<"k">>, !.duration = d, !.sizeMB = z,
                     !.options = tc.options, !.configured = tc.configured] :
        d \in {0, 110}, z \in {0, 52},
        tc \in {x \in ToleranceConfigs :
                   /\ x.options.durationToleranceSeconds # 0 =>
                          "durationToleranceSeconds" \in x.configured
                   /\ x.options.fileSizeTolerancePercent # 0 =>
                          "fileSizeTolerancePercent" \in x.configured}}

\* The Oracle under configured tolerances: rows are saved, then it is asked.
ToleranceInit ==
    /\ ScanIdle
    /\ StoreEmpty
    /\ LegacyIdle
    /\ DriverIdle
    /\ oracle \in ToleranceQueries
    /\ CallIdle
    /\ CleanupIdle

ToleranceNext ==
    \/ OracleSave
    \/ OracleAsk

SpecTolerance == ToleranceInit /\ [][ToleranceNext]_vars

\* The tolerance the configuration asks for: the value of the key when the
\* file has it, the default otherwise.
Configured(key, value, default) == IF key \in oracle.configured THEN value ELSE default

\* The candidate and the row both carry the data of the enabled check.
BothPresent(row) ==
    /\ oracle.options.checkDuration => (oracle.duration # 0 /\ row.duration # 0)
    /\ oracle.options.checkFileSize => (oracle.sizeMB # 0 /\ row.sizeMB # 0)

\* The enabled check between the candidate and a row passes under the
\* tolerance the configuration asks for.
PassesConfigured(row) ==
    /\ oracle.options.checkDuration =>
          Abs(oracle.duration - row.duration) <=
              Configured("durationToleranceSeconds",
                         oracle.options.durationToleranceSeconds, 30)
    /\ oracle.options.checkFileSize =>
          PercentWithin(oracle.sizeMB, row.sizeMB,
              Configured("fileSizeTolerancePercent",
                         oracle.options.fileSizeTolerancePercent, 5))

\* C39 (configured tolerances are honoured exactly): when the candidate and a
\* row of the topic that has the candidate's name both carry the data of the
\* enabled check, the Oracle returns the row if and only if the difference is
\* within the configured tolerance, whatever its value, 0 included, or within
\* the default (30 s, 5 %) when none is configured.
C39_TolerancesHonoured ==
    oracle.asked =>
        \A k \in 1..Len(processedVideos) :
            (/\ processedVideos[k].normalizedName = oracle.normalizedName
             /\ processedVideos[k].topicName = oracle.topicName
             /\ BothPresent(processedVideos[k])) =>
                (processedVideos[k] \in SeqToSet(oracle.rows)
                    <=> PassesConfigured(processedVideos[k]))

\* C24 (empty names never match): when the candidate's normalized name is
\* empty, neither the exact-name path nor the near-name path of the Oracle
\* accepts a row whose normalized name is empty.
C24_EmptyNamesNeverMatch ==
    (oracle.asked /\ oracle.normalizedName = <<>>) =>
        LET exact == ExactMatches(processedVideos, oracle.normalizedName, oracle.topicName,
                                  oracle.duration, oracle.sizeMB, oracle.options, 0, 0, <<>>)
            near == NearMatches(processedVideos, 1, <<>>, oracle.normalizedName,
                                oracle.topicName, oracle.duration, oracle.sizeMB,
                                oracle.options, 0, 0, <<>>)
        IN  /\ \A k \in 1..Len(exact) : exact[k].normalizedName # <<>>
            /\ \A k \in 1..Len(near) : near[k].normalizedName # <<>>

(***************************************************************************)
(* The writes of the Store one call at a time (services/storage.ts):       *)
(* saveProcessedMessage, saveProcessedVideoName and deleteVideosFromTopic, *)
(* each recorded in storeCall with the Store it was applied to.            *)
(***************************************************************************)
\* Bound of the calls model: the number of video rows the Store may hold.
MaxStored == 3

\* The message keys that are saved.
CallKeys == {MessageKey(1, 1), MessageKey(1, 2)}

\* The videos that are saved: two files with the normalized name "a" that
\* differ in file name and duration, and one saved without a normalized name.
CallVideos ==
    {[fileName |-> <<"A">>, normalizedName |-> <<"a">>, duration |-> 0],
     [fileName |-> <<"a">>, normalizedName |-> <<"a">>, duration |-> 5],
     [fileName |-> <<"B">>, normalizedName |-> <<>>, duration |-> 7]}

CallTopics == Topics \cup {Wildcard}

notCallVars == <<legacyVars, scanVars, driverVars, forwardingLog, oracle, probe, cleanup>>

CallsInit ==
    /\ ScanIdle
    /\ StoreEmpty
    /\ LegacyIdle
    /\ DriverIdle
    /\ OracleIdle
    /\ CallIdle
    /\ CleanupIdle

CallSaveMessage(messageId) ==
    /\ processedMessages' = saveProcessedMessage(processedMessages, messageId)
    /\ storeCall' = [NoCall EXCEPT !.op = "saveProcessedMessage", !.messageId = messageId,
                                   !.messages = processedMessages,
                                   !.videos = processedVideos]
    /\ UNCHANGED <<processedVideos, notCallVars>>

CallSaveVideo(video, topicName) ==
    /\ Len(processedVideos) < MaxStored
    /\ processedVideos' =
           saveProcessedVideoName(processedVideos, video.fileName, topicName, video.duration,
                                  0, video.normalizedName, 0, 0, <<>>)
    /\ storeCall' = [NoCall EXCEPT !.op = "saveProcessedVideoName",
                                   !.normalizedName =
                                       IF video.normalizedName # <<>> THEN video.normalizedName
                                       ELSE ToLower(video.fileName),
                                   !.topicName = topicName,
                                   !.messages = processedMessages,
                                   !.videos = processedVideos]
    /\ UNCHANGED <<processedMessages, notCallVars>>

CallDelete(normalizedNames, topicName) ==
    /\ processedVideos' = deleteVideosFromTopic(processedVideos, normalizedNames, topicName)
    /\ storeCall' = [NoCall EXCEPT !.op = "deleteVideosFromTopic",
                                   !.normalizedNames = normalizedNames,
                                   !.topicName = topicName,
                                   !.messages = processedMessages,
                                   !.videos = processedVideos,
                                   !.changes = deletedChanges(processedVideos, normalizedNames,
                                                              topicName)]
    /\ UNCHANGED <<processedMessages, notCallVars>>

CallsNext ==
    \/ \E messageId \in CallKeys : CallSaveMessage(messageId)
    \/ \E video \in CallVideos, topicName \in CallTopics : CallSaveVideo(video, topicName)
    \/ \E normalizedNames \in SUBSET {<<"a">>, <<"b">>}, topicName \in Topics :
          CallDelete(normalizedNames, topicName)

SpecCalls == CallsInit /\ [][CallsNext]_vars

\* The Store before the recorded call held the key that the call saves.
KeyExisted ==
    \/ /\ storeCall.op = "saveProcessedMessage"
       /\ storeCall.messageId \in storeCall.messages
    \/ /\ storeCall.op = "saveProcessedVideoName"
       /\ \E k \in 1..Len(storeCall.videos) :
             /\ storeCall.videos[k].normalizedName = storeCall.normalizedName
             /\ storeCall.videos[k].topicName = storeCall.topicName

\* C19 (idempotent writes): a saveProcessedMessage with a key the Store holds,
\* or a saveProcessedVideoName with a (normalizedName, topicName) it holds,
\* changes nothing: both tables are as before the call, so the row counts are
\* the same and the existing row keeps its file name and metadata.
C19_IdempotentWrites ==
    KeyExisted =>
        /\ processedMessages = storeCall.messages
        /\ processedVideos = storeCall.videos

\* saveProcessedVideoName was called with the normalized name "a" on a Store
\* that holds a row with this name and topic, saved from the file "A" with no
\* duration, next to a message row; the row is still the one of file "A".
C19_Witness ==
    /\ KeyExisted
    /\ storeCall.op = "saveProcessedVideoName"
    /\ storeCall.normalizedName = <<"a">>
    /\ \E k \in 1..Len(processedVideos) :
          /\ processedVideos[k].normalizedName = <<"a">>
          /\ processedVideos[k].topicName = storeCall.topicName
          /\ processedVideos[k].fileName = <<"A">>
          /\ processedVideos[k].duration = 0
    /\ Len(processedVideos) = MaxStored - 1
    /\ Cardinality(processedMessages) = 1

\* The rows of videos that a delete of normalizedNames in topicName is to remove.
Doomed(videos, normalizedNames, topicName) ==
    {r \in SeqToSet(videos) :
        r.normalizedName \in normalizedNames /\ r.topicName \in {topicName, Wildcard}}

\* C20 (deleteVideosFromTopic): the call removes exactly the rows whose
\* normalizedName is in the list and whose topic is the given one or "*",
\* returns the number of rows removed, and leaves every other video row and
\* every processed-message row as it was; with an empty list it removes
\* nothing and returns 0.
C20_DeleteFrame ==
    storeCall.op = "deleteVideosFromTopic" =>
        LET doomed == Doomed(storeCall.videos, storeCall.normalizedNames, storeCall.topicName)
        IN  /\ SeqToSet(processedVideos) = SeqToSet(storeCall.videos) \ doomed
            /\ Len(processedVideos) = Len(storeCall.videos) - Cardinality(doomed)
            /\ storeCall.changes = Len(storeCall.videos) - Len(processedVideos)
            /\ processedMessages = storeCall.messages
            /\ storeCall.normalizedNames = {} =>
                   /\ processedVideos = storeCall.videos
                   /\ storeCall.changes = 0

\* A delete that removed a row of the topic and a legacy row and left a row
\* with the same name under another topic, with a message row in the Store.
C20_Witness ==
    /\ storeCall.op = "deleteVideosFromTopic"
    /\ storeCall.changes = 2
    /\ \E k \in 1..Len(storeCall.videos) : storeCall.videos[k].topicName = Wildcard
    /\ Len(processedVideos) = 1
    /\ processedVideos[1].normalizedName \in storeCall.normalizedNames
    /\ processedMessages # {}

\* The position of the per-topic forward that succeeds in this step, if any.
SucceedsNow(k) == k \in 1..Len(tasks) /\ tasks[k] = "inflight" /\ tasks'[k] = "ok"

Escapes ==
    /\ pc' = "runner"
    /\ \/ pc = "dedup"
       \/ pc = "history" /\ HistoryPage(srcIdx, offsetId) # <<>>

\* C33 (source error isolation): when an error leaves processSource, the
\* runner goes on with the next source, the Store keeps what was written for
\* the source, and the forwards made in the source so far are in the total
\* that is held against maxForwards for the sources that follow.
C33_SourceErrorIsolation ==
    [][Escapes => /\ srcIdx' = srcIdx + 1
                  /\ storeVars' = storeVars
                  /\ totalForwarded' = forwarded]_vars

\* The scanner is at a message the Predicate matches while the forward counter
\* has reached maxForwards: processSource halts here (lines 334-341).
AtCap ==
    /\ pc = "decide"
    /\ matchesVideo(cur, matches, exclusions, sortConfig.minVideoDurationInSeconds) # <<>>
    /\ forwarded >= sortConfig.maxForwards

\* C37 (no matching message is lost to the cap): when the scanner halts at
\* the cap, the matching message it halts at, which it did not try to forward,
\* is not committed as processed, so that a later run takes it up again.
C37_NoMatchLostToCap ==
    [][AtCap => ~hasProcessedMessage(processedMessages', MessageKey(srcIdx, cur.id))]_vars

\* A forward of the candidate in hand is pending.
InFlight == \E k \in 1..Len(tasks) : tasks[k] = "inflight"

\* C36 (fan-out barrier): forwards are pending only during the fan-out of the
\* candidate in hand, one per topic to forward; while the scanner is in the
\* fan-out it takes up no other message, touches no Store table and issues no
\* RPC but the forwards; and it leaves the fan-out only when every forward of
\* the candidate has settled.
C36_FanOutBarrier ==
    [][/\ InFlight => (pc = "fanout" /\ Len(tasks) = Len(topicsToForward))
       /\ pc = "fanout" =>
              /\ UNCHANGED <<batch, srcIdx, storeVars, observed, decided>>
              /\ issued' \subseteq issued \cup {"ForwardMessages"}
              /\ pc' = "fanout" => UNCHANGED <<cur, topicsToForward>>
              /\ pc' # "fanout" => ~InFlight]_vars

\* Two forwards of one candidate were started together and the second has
\* settled while the first is still pending.
C36_Witness ==
    /\ pc = "fanout"
    /\ Len(tasks) = 2
    /\ tasks[1] = "inflight"
    /\ tasks[2] = "ok"

\* The forward counter: processSource's local count while a source is being
\* processed, the runner's total between two sources.
ForwardCounter == IF pc \in {"runner", "finished"} THEN totalForwarded ELSE forwarded

\* C30 (forward counter): when the fan-out of a source message is joined, the
\* forward counter goes up by one if at least one of the per-topic forwards
\* succeeded and stays as it is otherwise, whatever the number of topics;
\* within a run the counter never decreases, and it never exceeds maxForwards.
C30_ForwardCounter ==
    [][/\ (pc = "fanout" /\ pc' # "fanout") =>
              forwarded' = forwarded + (IF \E k \in 1..Len(tasks) : tasks[k] = "ok" THEN 1 ELSE 0)
       /\ run' = run => ForwardCounter' >= ForwardCounter
       /\ ForwardCounter' <= sortConfig.maxForwards]_vars

\* C22 (skipCleanup): in a run whose configuration sets skipCleanup, the
\* sweeper fetches no history page of the destination and deletes no message.
C22_SkipCleanup ==
    sortConfig.skipCleanup => (~sweepLog.fetched /\ sweepLog.deleted = {})

(***************************************************************************)
(* The sweeper on its own (services/forum-cleaner.ts): cleanupForumGroup   *)
(* called again and again on a destination that nothing else changes.      *)
(***************************************************************************)
\* Bound of the sweeper model: the number of calls of cleanupForumGroup.
MaxPasses == 2

\* The messages the forum group may hold: three copies of one video in topic
\* k (two spellings of the file name), two copies in topic q, an excluded
\* video and a plain text message.
SweepCopies ==
    { CopyOf(1, Video(<<"K","1",".","m","p","4">>, 5, 10), <<"k">>),
      CopyOf(2, Video(<<"k","1",".","m","p","4">>, 5, 10), <<"k">>),
      CopyOf(3, Video(<<"K","1",".","m","p","4">>, 5, 10), <<"k">>),
      CopyOf(4, Video(<<"K","1",".","m","p","4">>, 5, 10), <<"q">>),
      CopyOf(5, Video(<<"k","z",".","m","p","4">>, 5, 10), <<"k">>),
      CopyOf(6, TextMessage(6), <<"k">>),
      CopyOf(7, Video(<<"K","1",".","m","p","4">>, 5, 10), <<"q">>) }

SweepInit ==
    /\ ScanStart
    /\ pc = "cleanup"
    /\ sortConfig.maxForwards = MaxForwardsCap
    /\ sortConfig.duplicateDetection = NoChecks
    /\ StoreEmpty
    /\ destination \in SUBSET SweepCopies
    /\ destSeq = Cardinality(SweepCopies) + 1
    /\ LegacyIdle
    /\ DriverIdle
    /\ OracleIdle
    /\ CallIdle
    /\ CleanupIdle

\* cleanupForumGroup is called again: its locals start afresh.
SweepAgain ==
    /\ pc = "runner"
    /\ sweepLog.pass < MaxPasses
    /\ pc' = "cleanup"
    /\ sweepOffsetId' = 0
    /\ totalExcluded' = 0
    /\ totalDuplicates' = 0
    /\ sweepLog' = [NoSweep EXCEPT !.pass = sweepLog.pass + 1, !.failed = sweepLog.failed,
                                   !.earlier = sweepLog.earlier \cup sweepLog.deleted]
    /\ UNCHANGED <<destination, issued, sweepBatch, videosByTopic, notSweepVars>>

SweepNext ==
    \/ SweepHistoryThrows
    \/ SweepHistoryReturns
    \/ \E ok \in BOOLEAN : SweepMessage(ok)
    \/ \E ok \in BOOLEAN : SweepPurge(ok)
    \/ SweepAgain

SpecSweep == SweepInit /\ [][SweepNext]_vars

\* C21 (sweeper fixed point): with dryRun off and no RPC failing, a call of
\* cleanupForumGroup that follows another one deletes nothing: it removes no
\* message and counts no excluded video and no duplicate.
C21_SweeperFixedPoint ==
    (sweepLog.pass > 1 /\ ~sortConfig.dryRun /\ ~sweepLog.failed) =>
        /\ sweepLog.deleted = {}
        /\ totalExcluded = 0
        /\ totalDuplicates = 0

\* The second call has returned without a failure; the first one removed the
\* excluded video and two duplicates, and copies are left in both topics.
C21_Witness ==
    /\ sweepLog.pass = 2
    /\ pc = "runner"
    /\ ~sortConfig.dryRun
    /\ ~sweepLog.failed
    /\ sweepLog.earlier = {1, 2, 5}
    /\ {m.id : m \in destination} = {3, 4, 6}

\* The positions of sweepLog.tracked recorded under the topic and the
\* lower-cased file name of position n, and the first of them.
CopiesOf(n) ==
    {j \in 1..Len(sweepLog.tracked) : /\ sweepLog.tracked[j].topic = sweepLog.tracked[n].topic
                                      /\ sweepLog.tracked[j].name = sweepLog.tracked[n].name}

FirstCopy(n) == CHOOSE j \in CopiesOf(n) : \A o \in CopiesOf(n) : j <= o

\* The messages the forum group held when the call at hand started.
SweptMessages == {m \in SweepCopies : m.id \in DestinationIds \cup sweepLog.deleted}

\* The media messages with a file name whose caption or file name holds an
\* exclusion.
ExcludedIds ==
    {m.id : m \in {c \in SweptMessages :
        /\ c.doc.media
        /\ getFileName(c.doc) # <<>>
        /\ \E k \in 1..Len(exclusions) :
               Includes(ToLower(c.doc.message \o <<" ">> \o getFileName(c.doc)),
                        ToLower(exclusions[k]))}}

RpcIds == UNION {SeqToSet(sweepLog.rpcs[r]) : r \in 1..Len(sweepLog.rpcs)}

\* C32 as stated: once the sweeper has gone through the history and returned,
\* of the k > 1 messages it recorded under a topic and a lower-cased file
\* name exactly k - 1 are gone and the first one encountered is still there,
\* every message matching an exclusion is gone, and no delete RPC carried
\* more than BatchSize ids.
C32_SweeperDeletes ==
    (sweepLog.paged /\ pc = "runner") =>
        /\ \A n \in 1..Len(sweepLog.tracked) :
               /\ sweepLog.tracked[FirstCopy(n)].id \in DestinationIds
               /\ \A j \in CopiesOf(n) \ {FirstCopy(n)} :
                      sweepLog.tracked[j].id \notin DestinationIds
        /\ ExcludedIds \cap DestinationIds = {}
        /\ \A r \in 1..Len(sweepLog.rpcs) : Len(sweepLog.rpcs[r]) <= BatchSize

\* C32, amended: once the sweeper has gone through the history, the ids it
\* queues for deletion are, for every topic and lower-cased file name, all
\* recorded messages but the first one encountered (so k - 1 of k, and never a
\* message for a copy in another topic); every media message with a file name
\* that matches an exclusion is handed to a delete RPC of its own when met and
\* is not recorded; outside dryRun every queued id is handed to a delete RPC
\* of at most BatchSize ids, and only a message whose RPC succeeded is gone;
\* in dryRun no delete RPC is issued.
C32_SweeperRule ==
    /\ sweepLog.paged =>
           /\ sweepLog.queued =
                  {sweepLog.tracked[j].id :
                       j \in {n \in 1..Len(sweepLog.tracked) : n # FirstCopy(n)}}
           /\ \A n \in 1..Len(sweepLog.tracked) :
                  /\ sweepLog.tracked[FirstCopy(n)].id \notin RpcIds
                  /\ sweepLog.tracked[n].id \notin sweepLog.excluded
           /\ sweepLog.excluded = ExcludedIds
           /\ (pc = "runner" /\ ~sortConfig.dryRun) =>
                  RpcIds = sweepLog.excluded \cup sweepLog.queued
    /\ \A id \in sweepLog.excluded : sortConfig.dryRun \/ \E r \in 1..Len(sweepLog.rpcs) :
                                                              sweepLog.rpcs[r] = <<id>>
    /\ \A r \in 1..Len(sweepLog.rpcs) : Len(sweepLog.rpcs[r]) \in 1..BatchSize
    /\ sortConfig.dryRun => sweepLog.rpcs = <<>>
    /\ sweepLog.deleted \subseteq RpcIds
    /\ DestinationIds \cap sweepLog.deleted = {}

\* A wet sweep over all seven messages has returned: it deleted the excluded
\* video when it met it and then the three duplicates in two batches, of
\* which the second failed; the newest copy of each topic was never queued.
C32_Witness ==
    /\ pc = "runner"
    /\ sweepLog.pass = 1
    /\ sweepLog.paged
    /\ ~sortConfig.dryRun
    /\ sweepLog.excluded = {5}
    /\ sweepLog.queued = {1, 2, 4}
    /\ Len(sweepLog.rpcs) = 3
    /\ Len(sweepLog.rpcs[2]) = BatchSize
    /\ sweepLog.deleted = {2, 4, 5}
    /\ DestinationIds = {1, 3, 6, 7}

(***************************************************************************)
(* The text functions on their own (utils/helpers.ts and                   *)
(* utils/video-matching.ts): normalizeFileName, matchesVideo and           *)
(* shouldExcludeVideo applied to small inputs.                             *)
(***************************************************************************)
\* Bound of the text model: the length of a file name.
NameLen == 4

\* The characters of the file names: a letter in both cases, a separator and
\* what spells the quality token "hd".
NameChars == {"h", "d", "D", ".", "a"}

Texts(chars, n) == UNION {[1..k -> chars] : k \in 0..n}

\* String.prototype.toUpperCase.
ToUpper(s) == [i \in 1..Len(s) |-> IF s[i] \in LowerLetters THEN UpperOf[s[i]] ELSE s[i]]

\* The calls of normalizeFileName that are studied: a file name, and the same
\* name in capitals.
NormalizeInputs ==
    {[NoProbe EXCEPT !.fn = "normalizeFileName", !.message.fileName = x, !.other = ToUpper(x)] :
        x \in Texts(NameChars, NameLen)}

notProbeVars ==
    <<storeVars, legacyVars, scanVars, driverVars, forwardingLog, oracle, storeCall, cleanup>>

\* normalizeFileName is applied to the name, to its own result and to the
\* name in capitals.
ApplyNormalize ==
    /\ probe.fn = "normalizeFileName" /\ ~probe.done
    /\ probe' = [probe EXCEPT
                    !.done = TRUE,
                    !.once = normalizeFileName(probe.message.fileName),
                    !.twice = normalizeFileName(normalizeFileName(probe.message.fileName)),
                    !.otherOnce = normalizeFileName(probe.other)]
    /\ UNCHANGED notProbeVars

\* The tokens of lines 37, 40 and 41, and the patterns of lines 35 and 36.
HasStripToken(s) ==
    \/ \E k \in 1..Len(QualityTokens) : Includes(s, QualityTokens[k])
    \/ \E k \in 1..Len(CodecTokens) : Includes(s, CodecTokens[k])
    \/ \E k \in 1..Len(AudioTokens) : Includes(s, AudioTokens[k])
    \/ \E i \in 1..Len(s) : ResolutionLens(s)[i] > 0 \/ KLens(s)[i] > 0

\* C23 (normalizer idempotence): normalizing a normalized name changes
\* nothing, the result does not depend on the case of the letters, and it
\* holds no token of the strip-list.
C23_NormalizerIdempotent ==
    (probe.fn = "normalizeFileName" /\ probe.done) =>
        /\ probe.twice = probe.once
        /\ probe.otherOnce = probe.once
        /\ ~HasStripToken(probe.once)

\* The documents of the messages the Predicate is asked about: none, a
\* document flagged video without a video attribute, one with the attribute
\* only, one with neither, one with both.
DocKinds ==
    {[document |-> FALSE, video |-> FALSE, videoAttr |-> FALSE],
     [document |-> TRUE, video |-> TRUE, videoAttr |-> FALSE],
     [document |-> TRUE, video |-> FALSE, videoAttr |-> TRUE],
     [document |-> TRUE, video |-> FALSE, videoAttr |-> FALSE],
     [document |-> TRUE, video |-> TRUE, videoAttr |-> TRUE]}

\* Bound of the text model: the minDuration the Predicate is called with.
ProbeMinDuration == 3

Captions == {<<>>, <<"Z">>, <<"q">>}
FileNames == {<<>>, <<"K">>, <<"k", "z">>, <<"q">>}

\* Bound of the text model: the length of the list of match keywords.
MaxKeywords == 2

\* Keywords and exclusions as a configuration may spell them: in capitals,
\* padded with spaces, blank or empty.
Keywords == {<<"k">>, <<"K", " ">>, <<" ">>, <<"Q">>}
Exclusions == {<<"z">>, <<" ", "Z", " ">>, <<>>, <<" ">>}

ProbeMessage(kind, duration, caption, fileName) ==
    [Video(fileName, duration, 10) EXCEPT
        !.media = kind.document, !.document = kind.document, !.video = kind.video,
        !.videoAttr = kind.videoAttr, !.message = caption]

\* The calls of matchesVideo that are studied.
MatchInputs ==
    {[NoProbe EXCEPT !.fn = "matchesVideo",
                     !.message = ProbeMessage(kind, duration, caption, fileName),
                     !.matches = keywords, !.exclusions = excluded,
                     !.minDuration = ProbeMinDuration] :
        kind \in DocKinds, duration \in {0, 2, 5}, caption \in Captions,
        fileName \in FileNames, keywords \in Texts(Keywords, MaxKeywords),
        excluded \in Texts(Exclusions, 1)}

\* The calls of shouldExcludeVideo that are studied.
ExcludeInputs ==
    {[NoProbe EXCEPT !.fn = "shouldExcludeVideo",
                     !.message = ProbeMessage([document |-> TRUE, video |-> TRUE,
                                               videoAttr |-> TRUE], 5, caption, fileName),
                     !.exclusions = excluded] :
        caption \in Captions, fileName \in FileNames,
        excluded \in Texts(Exclusions, MaxKeywords)}

TextInit ==
    /\ ScanIdle
    /\ StoreEmpty
    /\ LegacyIdle
    /\ DriverIdle
    /\ OracleIdle
    /\ storeCall = NoCall
    /\ CleanupIdle
    /\ probe \in NormalizeInputs \cup MatchInputs \cup ExcludeInputs

ApplyMatches ==
    /\ probe.fn = "matchesVideo" /\ ~probe.done
    /\ probe' = [probe EXCEPT
                    !.done = TRUE,
                    !.once = matchesVideo(probe.message, probe.matches, probe.exclusions,
                                          probe.minDuration)]
    /\ UNCHANGED notProbeVars

ApplyExclude ==
    /\ probe.fn = "shouldExcludeVideo" /\ ~probe.done
    /\ probe' = [probe EXCEPT
                    !.done = TRUE,
                    !.excluded = shouldExcludeVideo(probe.message.message,
                                                    probe.message.fileName, probe.exclusions)]
    /\ UNCHANGED notProbeVars

TextNext == ApplyNormalize \/ ApplyMatches \/ ApplyExclude

SpecText == TextInit /\ [][TextNext]_vars

\* The text the Predicate searches: lower(caption) + ' ' + lower(fileName).
CombinedText(message) == ToLower(message.message) \o <<" ">> \o ToLower(getFileName(message))

\* matchesVideo, lines 39-45: some exclusion, lowered and trimmed, is not
\* empty and occurs in the text.
RejectedByExclusion(text, excluded) ==
    \E k \in 1..Len(excluded) :
        /\ Trim(ToLower(excluded[k])) # <<>>
        /\ Includes(text, Trim(ToLower(excluded[k])))

\* The message is not a video of at least minDuration seconds.
NotEligible(message, minDuration) ==
    \/ ~message.document
    \/ ~message.video /\ ~message.videoAttr
    \/ ~message.videoAttr \/ message.duration = 0
    \/ message.duration < minDuration

\* C25 (Predicate result): matchesVideo returns the empty list for a message
\* without document, not a video, without duration or too short, or whose text
\* holds an exclusion; otherwise exactly the match keywords whose trimmed
\* lower-case form occurs in the text, as they are spelled and in their order.
C25_PredicateResult ==
    (probe.fn = "matchesVideo" /\ probe.done) =>
        LET text == CombinedText(probe.message)
            occurs == [k \in 1..Len(probe.matches) |->
                          /\ Trim(ToLower(probe.matches[k])) # <<>>
                          /\ Includes(text, Trim(ToLower(probe.matches[k])))]
        IN  IF \/ NotEligible(probe.message, probe.minDuration)
               \/ RejectedByExclusion(text, probe.exclusions)
            THEN probe.once = <<>>
            ELSE probe.once = Filter(probe.matches, occurs)

\* A video named "K" with the caption "q" was matched against the keywords
\* "K " and "k" and the padded exclusion " Z ": both keywords are returned as
\* they are spelled.
C25_Witness ==
    /\ probe.fn = "matchesVideo" /\ probe.done
    /\ probe.message.fileName = <<"K">>
    /\ probe.message.message = <<"q">>
    /\ probe.matches = << <<"K", " ">>, <<"k">> >>
    /\ probe.exclusions = << <<" ", "Z", " ">> >>
    /\ probe.once = probe.matches

\* C26 (shouldExcludeVideo mirrors the Predicate): shouldExcludeVideo is true
\* exactly when matchesVideo rejects the same caption and file name because of
\* an exclusion.
C26_ExcludeMirrorsPredicate ==
    (probe.fn = "shouldExcludeVideo" /\ probe.done) =>
        (probe.excluded <=> RejectedByExclusion(CombinedText(probe.message), probe.exclusions))

(***************************************************************************)
(* cleanup-duplicates.ts: the utility that scans every topic of the forum  *)
(* group for duplicate videos and deletes all but the oldest of each group *)
(* (npm run cleanup reports them, npm run cleanup-delete deletes them).    *)
(***************************************************************************)

\* The utility's own calculateSimilarity as the exact fraction
\* <<numerator, denominator>>.
cleanupSimilarity(str1, str2) ==
    IF str1 = str2 THEN <<1, 1>>
    ELSE IF Includes(IF Len(str1) > Len(str2) THEN str1 ELSE str2,
                     IF Len(str1) > Len(str2) THEN str2 ELSE str1)
         THEN <<Min(Len(str1), Len(str2)), Max(Len(str1), Len(str2))>>
         ELSE <<CommonPrefix(str1, str2), Max(Len(str1), Len(str2))>>

\* areVideosDuplicate with its default tolerances: name similarity of at
\* least 0.85, durations (when both are there) within 30 seconds, sizes
\* within 2 percent of the larger one.
areVideosDuplicate(v1, v2) ==
    /\ 100 * cleanupSimilarity(v1.normalizedName, v2.normalizedName)[1]
           >= 85 * cleanupSimilarity(v1.normalizedName, v2.normalizedName)[2]
    /\ ~(v1.duration # 0 /\ v2.duration # 0 /\ Abs(v1.duration - v2.duration) > 30)
    /\ ~(100 * Abs(v1.sizeMB - v2.sizeMB) > 2 * Max(v1.sizeMB, v2.sizeMB))

\* The VideoInfo scanTopicForVideos pushes for a message.
VideoInfo(m) ==
    [messageId |-> m.id, fileName |-> getFileName(m.doc),
     normalizedName |-> normalizeFileName(getFileName(m.doc)),
     duration |-> getVideoDuration(m.doc), sizeMB |-> getFileSizeMB(m.doc)]

RECURSIVE InfoOfEach(_)
InfoOfEach(replies) ==
    IF replies = <<>> THEN <<>>
    ELSE <<VideoInfo(Head(replies))>> \o InfoOfEach(Tail(replies))

\* scanTopicForVideos: the videos of the topic's replies, newest first (the
\* topic is smaller than one page of 100); nothing when GetReplies throws.
scanTopicForVideos(group, topicName, ok) ==
    IF ok
    THEN InfoOfEach(NewestFirst({m \in group : /\ m.topic = topicName
                                               /\ m.doc.media
                                               /\ m.doc.document
                                               /\ (m.doc.videoAttr \/ m.doc.video)}))
    ELSE <<>>

\* A sort that puts the newest message of a group first.
RECURSIVE newestFirst(_)
newestFirst(group) ==
    IF group = {} THEN <<>>
    ELSE <<CHOOSE v \in group : \A o \in group : o.messageId <= v.messageId>>
         \o newestFirst(group \ {CHOOSE v \in group : \A o \in group : o.messageId <= v.messageId})

\* group.sort((a, b) => a.messageId - b.messageId): oldest first.
RECURSIVE oldestFirst(_)
oldestFirst(group) ==
    IF group = {} THEN <<>>
    ELSE <<CHOOSE v \in group : \A o \in group : v.messageId <= o.messageId>>
         \o oldestFirst(group \ {CHOOSE v \in group : \A o \in group : v.messageId <= o.messageId})

\* The positions after i that findDuplicates puts into the group of videos[i].
DuplicatesOf(videos, i, processedSet) ==
    {j \in (i + 1)..Len(videos) : j \notin processedSet /\ areVideosDuplicate(videos[i], videos[j])}

\* findDuplicates from position i on: the groups in the order of their
\* insertion into the Map.
RECURSIVE findDuplicatesFrom(_, _, _, _)
findDuplicatesFrom(videos, i, processedSet, duplicateGroups) ==
    IF i > Len(videos) THEN duplicateGroups
    ELSE IF i \in processedSet THEN findDuplicatesFrom(videos, i + 1, processedSet, duplicateGroups)
    ELSE findDuplicatesFrom(videos, i + 1,
             processedSet \cup DuplicatesOf(videos, i, processedSet) \cup {i},
             IF DuplicatesOf(videos, i, processedSet) # {}
             THEN Append(duplicateGroups,
                         oldestFirst({videos[j] : j \in DuplicatesOf(videos, i, processedSet) \cup {i}}))
             ELSE duplicateGroups)

findDuplicates(videos) == findDuplicatesFrom(videos, 1, {}, <<>>)

\* The message ids deleteDuplicateMessages walks through: of each group all
\* but the first.
RECURSIVE DuplicateIds(_)
DuplicateIds(duplicateGroups) ==
    IF duplicateGroups = <<>> THEN <<>>
    ELSE [k \in 1..(Len(Head(duplicateGroups)) - 1) |-> Head(duplicateGroups)[k + 1].messageId]
         \o DuplicateIds(Tail(duplicateGroups))

GroupIds(group) == {group[k].messageId : k \in 1..Len(group)}

\* What the forum group may hold when the utility starts: three copies of one
\* video in topic k, a pair that differs from them in its duration only, a
\* pair of near names in topic q, a note, and a video that is alone in q.
CleanupCopies ==
    { CopyOf(1, Video(<<"K","1",".","m","p","4">>, 5, 10), <<"k">>),
      CopyOf(2, Video(<<"k","1",".","m","p","4">>, 5, 10), <<"k">>),
      CopyOf(3, Video(<<"K","1",".","m","p","4">>, 5, 10), <<"k">>),
      CopyOf(4, Video(<<"K","1",".","m","p","4">>, 50, 10), <<"k">>),
      CopyOf(5, Video(<<"K","1",".","m","p","4">>, 50, 10), <<"k">>),
      CopyOf(6, Video(<<"q","q","q","q","q","q",".","m","p","4">>, 5, 10), <<"q">>),
      CopyOf(7, Video(<<"q","q","q","q","q","q","1",".","m","p","4">>, 5, 10), <<"q">>),
      CopyOf(8, TextMessage(8), <<"k">>),
      CopyOf(9, Video(<<"K","1",".","m","p","4">>, 5, 10), <<"q">>) }

\* main starts: --delete is on the command line or it is not.
CleanupInit ==
    /\ ScanStart
    /\ ~sortConfig.skipCleanup
    /\ sortConfig.dryRun
    /\ sortConfig.maxForwards = 1
    /\ sortConfig.duplicateDetection = NoChecks
    /\ pc = "runner"
    /\ StoreEmpty
    /\ destination \in SUBSET CleanupCopies
    /\ destSeq = Cardinality(CleanupCopies) + 1
    /\ LegacyIdle
    /\ DriverIdle
    /\ OracleIdle
    /\ CallIdle
    /\ \E dryRun \in BOOLEAN :
           cleanup = [NoCleanup EXCEPT !.step = "scan", !.dryRun = dryRun, !.topic = 1,
                                       !.before = {m.id : m \in destination}]

notCleanupVars ==
    <<storeVars, legacyVars, driverVars, forwardingLog, oracle, storeCall, probe,
      sortConfig, destSeq, topicMessageCache, run, pc, srcIdx,
      totalProcessed, totalForwarded, forwardStats, processed, forwarded, offsetId,
      hasMore, page, batch, cur, matchedStrings, remaining, topicsToForward,
      deletedCount, tasks, replacing, observed, decided, redecided, forwardedKeys,
      issued, sweepOffsetId, sweepBatch, videosByTopic, totalExcluded, totalDuplicates,
      sweepLog>>

\* The next step of main's loop once the topic at hand is finished.
AfterTopic(topic) == IF topic < Len(matches) THEN "scan" ELSE "done"

\* One turn of main's loop up to deleteDuplicateMessages: the topic is
\* scanned and its duplicate groups are found; a topic without videos or
\* without groups is left at once.
CleanupScan(ok) ==
    /\ cleanup.step = "scan"
    /\ cleanup' =
         [cleanup EXCEPT
            !.videos = scanTopicForVideos(destination, matches[cleanup.topic], ok),
            !.groups = findDuplicates(scanTopicForVideos(destination, matches[cleanup.topic], ok)),
            !.pending = DuplicateIds(findDuplicates(
                            scanTopicForVideos(destination, matches[cleanup.topic], ok))),
            !.found = @ \cup {GroupIds(g) : g \in SeqToSet(findDuplicates(
                            scanTopicForVideos(destination, matches[cleanup.topic], ok)))},
            !.deletedCount = 0,
            !.step = IF findDuplicates(scanTopicForVideos(destination, matches[cleanup.topic], ok))
                         = <<>>
                     THEN AfterTopic(cleanup.topic) ELSE "delete",
            !.topic = IF findDuplicates(scanTopicForVideos(destination, matches[cleanup.topic], ok))
                          = <<>>
                      THEN @ + 1 ELSE @]
    /\ UNCHANGED <<destination, notCleanupVars>>

\* deleteDuplicateMessages for the next duplicate: it is reported, and
\* without dryRun DeleteMessages is invoked for it; a call that throws is
\* logged and leaves the message where it is.  After the last duplicate main
\* goes on to the next topic.
CleanupDelete(ok) ==
    /\ cleanup.step = "delete"
    /\ cleanup.pending # <<>>
    /\ cleanup.dryRun => ok
    /\ destination' = IF ~cleanup.dryRun /\ ok
                      THEN {m \in destination : m.id # Head(cleanup.pending)}
                      ELSE destination
    /\ cleanup' =
         [cleanup EXCEPT
            !.pending = Tail(@),
            !.reported = @ \cup {Head(cleanup.pending)},
            !.issuedIds = IF cleanup.dryRun THEN @ ELSE @ \cup {Head(cleanup.pending)},
            !.deleted = IF ~cleanup.dryRun /\ ok THEN @ \cup {Head(cleanup.pending)} ELSE @,
            !.deletedCount = IF ok THEN @ + 1 ELSE @,
            !.step = IF Len(cleanup.pending) = 1 THEN AfterTopic(cleanup.topic) ELSE @,
            !.topic = IF Len(cleanup.pending) = 1 THEN @ + 1 ELSE @]
    /\ UNCHANGED notCleanupVars

CleanupNext ==
    \/ \E ok \in BOOLEAN : CleanupScan(ok)
    \/ \E ok \in BOOLEAN : CleanupDelete(ok)

SpecCleanup == CleanupInit /\ [][CleanupNext]_vars

OldestOf(ids) == CHOOSE id \in ids : \A o \in ids : id <= o

\* C28 as stated: once the utility has finished, in every duplicate group it
\* found the message with the smallest id is still in the forum group and
\* every other member is deleted (in dry-run mode: reported and still
\* there), and every message that is gone was a member of a group.
C28_EveryOtherDeleted ==
    cleanup.step = "done" =>
        /\ \A ids \in cleanup.found :
               /\ OldestOf(ids) \in DestinationIds
               /\ \A id \in ids \ {OldestOf(ids)} :
                      IF cleanup.dryRun
                      THEN id \in cleanup.reported /\ id \in DestinationIds
                      ELSE id \notin DestinationIds
        /\ \A id \in cleanup.before \ DestinationIds : \E ids \in cleanup.found : id \in ids

\* C28, amended: the message with the smallest id of a duplicate group is
\* never reported and never handed to DeleteMessages, and it stays in the
\* forum group; once the utility has finished, every other member of every
\* group it found has been reported, and DeleteMessages has been invoked for
\* it exactly when --delete was given; the messages that are gone are those
\* whose DeleteMessages call succeeded, each of them a member of a group and
\* not its oldest.
C28_KeepsOldest ==
    /\ \A ids \in cleanup.found :
           /\ OldestOf(ids) \in DestinationIds
           /\ OldestOf(ids) \notin cleanup.reported \cup cleanup.issuedIds
    /\ cleanup.step = "done" =>
           \A ids \in cleanup.found : \A id \in ids \ {OldestOf(ids)} :
               /\ id \in cleanup.reported
               /\ id \in cleanup.issuedIds <=> ~cleanup.dryRun
    /\ cleanup.dryRun => cleanup.issuedIds = {}
    /\ cleanup.deleted \subseteq cleanup.issuedIds
    /\ DestinationIds = cleanup.before \ cleanup.deleted
    /\ \A id \in cleanup.deleted : \E ids \in cleanup.found : id \in ids \ {OldestOf(ids)}

\* With --delete the utility has gone through both topics: it found the three
\* copies, the pair of another duration and the pair of near names, deleted
\* all but the oldest of each, and left the note and the lone video alone.
C28_Witness ==
    /\ cleanup.step = "done"
    /\ ~cleanup.dryRun
    /\ cleanup.before = 1..9
    /\ cleanup.found = {{1, 2, 3}, {4, 5}, {6, 7}}
    /\ cleanup.deleted = {2, 3, 5, 7}
    /\ DestinationIds = {1, 4, 6, 8, 9}
=============================================================================
